---- MODULE Spec2Model ----
(***************************************************************************)
(* Model of the transcode work queue, the worker loop and the supervisor   *)
(* of crates/musicopy/src/library/transcode.rs.                            *)
(*                                                                         *)
(* Granularity.  Every access to TranscodeQueue.queue happens with the     *)
(* queue mutex held.  A supervisor operation holds that mutex for one      *)
(* block (mutate, recount, store the counter), so the block is one step.   *)
(* wait() holds it across several atomic accesses that other threads can   *)
(* see (the policy read inside pop_if, the fetch_sub, the condvar wait),   *)
(* so wait() is one step per access and queue_lock names the worker that   *)
(* holds the mutex in between.  The policy mutex guards single reads and   *)
(* writes of the policy, each of which is one step.                        *)
(*                                                                         *)
(* ready_counter is an AtomicU64.  The model keeps the signed              *)
(* representative of its value modulo 2^64: a fetch_sub(1) at 0 leaves     *)
(* 2^64 - 1, which is written -1 here.                                     *)
(***************************************************************************)
EXTENDS Integers, FiniteSets, Sequences, TLC

\* Source paths handed to the queue, and the worker threads.
Paths == {"a", "b", "c"}
Workers == {"w1", "w2"}

\* Content hashes; "a" and "b" are two copies of the same audio.
Hashes == {"h1", "h2"}
HashOf(path) == IF path = "c" THEN "h2" ELSE "h1"

\* Priorities are u64 in the code; prioritize is cut off at MaxPriority.
MaxPriority == 2
\* Number of queue operations the supervisor issues.
MaxOps == 3
\* The same, in the liveness checks.
MaxLiveOps == 2

IfRequested == "IfRequested"
Always == "Always"
TranscodePolicy == {IfRequested, Always}

\* The key of the status cache a model hash stands for: the hash kind and the
\* 16 bytes.  DigestLen is the N of [u8; N].
DigestLen == 16
KindOf(hash) == IF hash = "h1" THEN "xxh3" ELSE IF hash = "h2" THEN "md5" ELSE "sha1"
BytesOf(hash) == [i \in 1..DigestLen |-> IF hash = "h1" THEN 170 ELSE 17]
KeyOf(hash) == [kind |-> <<KindOf(hash)>>, hash |-> BytesOf(hash)]

\* Threads that call into the status cache, and a caller between two calls.
Callers == {"t1", "t2", "t3"}
Idle == [op |-> "idle"]

\* No path in a worker's hand; no holder of the queue mutex.
NoJob == "none"
Unlocked == "none"

VARIABLES
    policy,         \* TranscodeQueue.policy
    queue,          \* TranscodeQueue.queue: resident path -> priority
    ready_counter,  \* TranscodeQueue.ready_counter
    queue_lock,     \* the worker inside wait() holding the queue mutex, or Unlocked
    sup_pc,         \* where the supervisor is inside a queue operation
    sup_policy,     \* the operation's local `policy`
    sup_items,      \* the operation's `items`
    ops,            \* operations issued so far
    pc,             \* where each worker is
    job,            \* the path each worker popped
    popped,         \* what pop_if saw when it handed out job
    status_cache,   \* TranscodeStatusCache.cache: hash -> "Ready" | "Failed" | "none"
    status_ready,   \* TranscodeStatusCache.ready_counter
    status_failed,  \* TranscodeStatusCache.failed_counter
    inprogress_counter, \* RegionCounter of the pool
    call,           \* where each caller of the status cache is inside insert or retain
    files,          \* transcodes_dir: file name -> [type, len]
    ready_entry,    \* the fields of each Ready entry: [path, size], or NoEntry
    scan,           \* where TranscodePool::spawn is in read_transcodes_dir
    hash_cache,     \* HashCache: "valid" when the row of the path matches the file
    fd,             \* where the output file each worker holds open is now
    sup_work,       \* the supervisor's progress in a filter or retain loop
    source,         \* the source files: path -> [size, mtime], or NoFile
    hash_db,        \* the file-hash rows of the database: path -> row, or NoRow
    audio,          \* what transcode() decodes from its input, and the encoder's lookahead
    out,            \* the locals of transcode() and the packets it has written
    policy_lock,    \* the thread holding the policy mutex of the TranscodeQueue, or Unlocked
    url_access_counts, \* URL_ACCESS_COUNTS: url -> count, for the urls that have an entry
    resource,       \* the security-scoped resource of each url: [accessing, last]
    guards          \* the IosUrlAccessGuard values alive for each url

vars == <<policy, queue, ready_counter, queue_lock, sup_pc, sup_policy, sup_items,
          ops, pc, job, popped, status_cache, status_ready, status_failed,
          inprogress_counter, call, files, ready_entry, scan,
          hash_cache, fd, sup_work, source, hash_db, audio, out,
          policy_lock, url_access_counts, resource, guards>>

queue_vars == <<policy, queue, ready_counter, queue_lock>>
sup_vars == <<sup_pc, sup_policy, sup_items, ops>>
worker_vars == <<pc, job, popped>>
status_vars == <<status_cache, status_ready, status_failed, inprogress_counter>>
dir_vars == <<files, ready_entry, scan>>
run_vars == <<hash_cache, fd, sup_work>>
hash_vars == <<source, hash_db>>
transcode_vars == <<audio, out>>
lock_vars == <<policy_lock>>
ios_vars == <<url_access_counts, resource, guards>>
\* What the queue operations and the queue-level worker steps never touch.
pool_vars == <<call, dir_vars, run_vars, hash_vars, transcode_vars, lock_vars, ios_vars>>

----------------------------------------------------------------------------
\* Pure helpers

\* A predicate that forgets the policy.
AdmitAny(pol, priority) == TRUE

\* The predicate of pop_if and of the recount.
Admit(pol, priority) ==
    IF pol = IfRequested THEN priority > 0 ELSE TRUE

\* A recount that takes queue.len() under either policy.
ReadyCountLen(pol, q) == Cardinality(DOMAIN q)

\* "update ready counter by re-counting queue"
ReadyCount(pol, q) ==
    Cardinality({p \in DOMAIN q : Admit(pol, q[p])})

\* PriorityQueue::push: insert, or replace the priority of a resident item.
Push(q, item, priority) ==
    [p \in DOMAIN q \cup {item} |-> IF p = item THEN priority ELSE q[p]]

\* push in the place of push_increase.
PushReplace(q, item, priority) == Push(q, item, priority)

\* PriorityQueue::push_increase: insert, or raise the priority of a resident
\* item when the new one is greater.
PushIncrease(q, item, priority) ==
    IF item \in DOMAIN q /\ q[item] >= priority THEN q ELSE Push(q, item, priority)

\* for item in items { queue.push_increase(item, 0); }
RECURSIVE ExtendQueue(_, _)
ExtendQueue(q, items) ==
    IF items = {} THEN q
    ELSE LET item == CHOOSE i \in items : TRUE
         IN  ExtendQueue(PushIncrease(q, item, 0), items \ {item})

\* A prioritize that inserts the requested items it does not find.
IncreaseOrInsert(q, items) ==
    [p \in DOMAIN q \cup items |-> IF p \in DOMAIN q THEN q[p] + 1 ELSE 1]

\* for (item, priority) in queue.iter_mut() { if items.contains(item) { *priority += 1 } }
IncreasePriority(q, items) ==
    [p \in DOMAIN q |-> IF p \in items THEN q[p] + 1 ELSE q[p]]

\* A retain with the predicate negated.
RetainNot(q, items) ==
    [p \in DOMAIN q \ items |-> q[p]]

\* queue.retain(|item, _| items.contains(item))
Retain(q, items) ==
    [p \in DOMAIN q \cap items |-> q[p]]

\* A peek that yields any resident item.
PeekAny(q) == DOMAIN q

\* The items PriorityQueue::peek may yield: the ones of greatest priority.
PeekMax(q) ==
    {p \in DOMAIN q : \A o \in DOMAIN q : q[o] <= q[p]}

\* PriorityQueue::pop of one item.
Remove(q, item) ==
    [p \in DOMAIN q \ {item} |-> q[p]]

\* A notification that reaches nobody.
NotifyNone(pcs) == pcs

\* Condvar::notify_all: every thread asleep on `ready` goes on to re-lock the queue.
NotifyAll(pcs) ==
    [w \in Workers |-> IF pcs[w] = "asleep" THEN "wait_lock" ELSE pcs[w]]

EmptyQueue == [p \in {} |-> 0]

NoPop == [policy |-> "none", priority |-> 0, queue |-> EmptyQueue]

----------------------------------------------------------------------------
\* File names of transcodes_dir and their parsing

\* A file name is its stem, as the sequence of its characters, and its
\* extension; a run of characters that holds no "-" and stands where the hash
\* kind stands is written as one element ("xxh3", "md5", "garbage").
Name(stem, ext) == [stem |-> stem, ext |-> ext]

Repeat(c, n) == [i \in 1..n |-> c]

\* hex::encode: two lower-case digits per byte.
HexDigits == <<"0", "1", "2", "3", "4", "5", "6", "7", "8", "9",
               "a", "b", "c", "d", "e", "f">>
HexEncode(bytes) ==
    [i \in 1..(2 * Len(bytes)) |->
        IF i % 2 = 1 THEN HexDigits[(bytes[(i + 1) \div 2] \div 16) + 1]
        ELSE HexDigits[(bytes[i \div 2] % 16) + 1]]

\* The value of one hex digit, in either case; -1 for any other character.
HexVal(c) ==
    IF \E v \in 1..16 : HexDigits[v] = c
    THEN (CHOOSE v \in 1..16 : HexDigits[v] = c) - 1
    ELSE IF c = "A" THEN 10 ELSE IF c = "B" THEN 11 ELSE IF c = "C" THEN 12
    ELSE IF c = "D" THEN 13 ELSE IF c = "E" THEN 14 ELSE IF c = "F" THEN 15
    ELSE -1

ParseError == [ok |-> FALSE]

\* hex::decode: an odd number of characters or a character that is no hex
\* digit is an error.
HexDecode(chars) ==
    IF Len(chars) % 2 = 1 \/ \E i \in 1..Len(chars) : HexVal(chars[i]) < 0
    THEN ParseError
    ELSE [ok |-> TRUE,
          bytes |-> [i \in 1..(Len(chars) \div 2) |->
                       16 * HexVal(chars[2 * i - 1]) + HexVal(chars[2 * i])]]

\* file_stem.split_once("-"): the characters before the first "-" and the
\* ones after it.
SplitOnce(stem) ==
    IF \E i \in 1..Len(stem) : stem[i] = "-"
    THEN LET i == CHOOSE k \in 1..Len(stem) :
                     stem[k] = "-" /\ \A m \in 1..(k - 1) : stem[m] # "-"
         IN  [ok |-> TRUE, kind |-> SubSeq(stem, 1, i - 1),
              hex |-> SubSeq(stem, i + 1, Len(stem))]
    ELSE ParseError

\* "parse file name as <hash kind>-<hash hex>.ext": the key of the status
\* cache a file stem names, when it names one; try_into() wants DigestLen
\* bytes.
ParseStem(stem) ==
    LET parts == SplitOnce(stem)
    IN  IF ~parts.ok THEN ParseError
        ELSE LET decoded == HexDecode(parts.hex)
             IN  IF ~decoded.ok THEN ParseError
                 ELSE IF Len(decoded.bytes) # DigestLen THEN ParseError
                 ELSE [ok |-> TRUE,
                       key |-> [kind |-> parts.kind, hash |-> decoded.bytes]]

\* temp_path and final_path of a worker: "{hash_kind}-{hex::encode(hash)}.tmp",
\* and the same with the extension "ogg".
TempPath(hash) ==
    Name(<<KindOf(hash), "-">> \o HexEncode(BytesOf(hash)), "tmp")
FinalPath(hash) ==
    Name(<<KindOf(hash), "-">> \o HexEncode(BytesOf(hash)), "ogg")

\* The directory entries the start-up scan may find.
DirEntries ==
    { Name(<<"xxh3", "-">> \o Repeat("a", 32), "ogg"),
      Name(<<"xxh3", "-">> \o Repeat("A", 32), "ogg"),
      Name(<<"md5", "-">> \o Repeat("1", 32), "ogg"),
      Name(<<"xxh3", "-">> \o Repeat("a", 32), "tmp"),
      Name(<<"garbage">>, "txt"),
      Name(<<"xxh3", "-">> \o Repeat("g", 32), "ogg"),
      Name(<<"md5", "-">> \o Repeat("1", 30), "ogg"),
      Name(<<"md5">> \o Repeat("1", 32), "ogg"),
      Name(<<"md5", "-">> \o Repeat("1", 32), "tmp"),
      Name(<<"xxh3", "-">> \o Repeat("1", 32), "ogg") }

\* The entries that are directories.
DirNames ==
    { Name(<<"md5", "-">> \o Repeat("1", 32), "tmp"),
      Name(<<"xxh3", "-">> \o Repeat("1", 32), "ogg") }

\* The on-disk size of an entry the scan finds.
LenOf(name) == IF name.stem[1] = "md5" THEN 2 ELSE 1

EmptyDir == [n \in {} |-> [type |-> "file", len |-> 0]]
NoEntry == [path |-> "none", size |-> 0]
ScanDone == [pc |-> "done", todo |-> {}, items |-> <<>>]
NoWork == [todo |-> {}, keep |-> {}]

\* The source files the hash cache is asked about, a path without a file and
\* a path without a row in the database.
HashPaths == {"a"}
NoFile == [exists |-> FALSE]
NoRow == [present |-> FALSE]

\* No transcode() has been called.
NoAudio == [sample_rate |-> 0]
NoOutput == [interleaved_len |-> 0]

\* The urls of the security-scoped resources; the state in which no thread holds the
\* policy mutex and no guard exists.
Urls == {"u"}
NoGuards ==
    /\ policy_lock = Unlocked
    /\ url_access_counts = [u \in {} |-> 0]
    /\ resource = [u \in Urls |-> [accessing |-> 0, last |-> "none"]]
    /\ guards = [u \in Urls |-> 0]

----------------------------------------------------------------------------
Init ==
    /\ policy \in TranscodePolicy
    /\ queue = EmptyQueue
    /\ ready_counter = 0
    /\ queue_lock = Unlocked
    /\ sup_pc = "idle"
    /\ sup_policy = policy
    /\ sup_items = {}
    /\ ops = 0
    /\ pc = [w \in Workers |-> "wait_lock"]
    /\ job = [w \in Workers |-> NoJob]
    /\ popped = [w \in Workers |-> NoPop]
    /\ status_cache = [h \in Hashes |-> "none"]
    /\ status_ready = 0
    /\ status_failed = 0
    /\ inprogress_counter = 0
    /\ call = [t \in Callers |-> Idle]
    /\ files = EmptyDir
    /\ ready_entry = [h \in Hashes |-> NoEntry]
    /\ scan = ScanDone
    /\ hash_cache = [p \in Paths |-> "none"]
    /\ fd = [w \in Workers |-> "closed"]
    /\ sup_work = NoWork
    /\ source = [p \in HashPaths |-> NoFile]
    /\ hash_db = [p \in HashPaths |-> NoRow]
    /\ audio = NoAudio
    /\ out = NoOutput
    /\ NoGuards

----------------------------------------------------------------------------
\* TranscodeQueue::set_policy

\* "update policy": the write under the policy mutex.
set_policy_update(p) ==
    /\ sup_pc = "idle"
    /\ policy' = p
    /\ sup_policy' = p
    /\ sup_pc' = "set_policy_recount"
    /\ ops' = ops + 1
    /\ UNCHANGED <<queue, ready_counter, queue_lock, sup_items>>
    /\ UNCHANGED <<worker_vars, status_vars, pool_vars>>

\* A set_policy that leaves the counter as it was.
set_policy_no_recount ==
    /\ sup_pc = "set_policy_recount"
    /\ queue_lock = Unlocked
    /\ sup_pc' = "set_policy_notify"
    /\ UNCHANGED <<queue_vars, sup_policy, sup_items, ops>>
    /\ UNCHANGED <<worker_vars, status_vars, pool_vars>>

\* The block under the queue mutex: recount with the parameter, store.
set_policy_recount ==
    /\ sup_pc = "set_policy_recount"
    /\ queue_lock = Unlocked
    /\ ready_counter' = ReadyCount(sup_policy, queue)
    /\ sup_pc' = "set_policy_notify"
    /\ UNCHANGED <<policy, queue, queue_lock, sup_policy, sup_items, ops>>
    /\ UNCHANGED <<worker_vars, status_vars, pool_vars>>

\* self.ready.notify_all()
set_policy_notify ==
    /\ sup_pc = "set_policy_notify"
    /\ pc' = NotifyAll(pc)
    /\ sup_pc' = "idle"
    /\ sup_items' = {}
    /\ UNCHANGED <<queue_vars, sup_policy, ops, job, popped, status_vars, pool_vars>>

----------------------------------------------------------------------------
\* TranscodeQueue::extend

\* "read policy before locking queue"
extend_read_policy(items) ==
    /\ sup_pc = "idle"
    /\ sup_policy' = policy
    /\ sup_items' = items
    /\ sup_pc' = "extend_push"
    /\ ops' = ops + 1
    /\ UNCHANGED <<queue_vars, worker_vars, status_vars, pool_vars>>

\* The block under the queue mutex: push_increase each item, recount, store.
extend_push ==
    /\ sup_pc = "extend_push"
    /\ queue_lock = Unlocked
    /\ queue' = ExtendQueue(queue, sup_items)
    /\ ready_counter' = ReadyCount(sup_policy, queue')
    /\ sup_pc' = "extend_notify"
    /\ UNCHANGED <<policy, queue_lock, sup_policy, sup_items, ops>>
    /\ UNCHANGED <<worker_vars, status_vars, pool_vars>>

\* An extend that returns without the notify.
extend_no_notify ==
    /\ sup_pc = "extend_notify"
    /\ sup_pc' = "idle"
    /\ sup_items' = {}
    /\ UNCHANGED <<queue_vars, sup_policy, ops, worker_vars, status_vars, pool_vars>>

\* "notify waiting consumers"
extend_notify ==
    /\ sup_pc = "extend_notify"
    /\ pc' = NotifyAll(pc)
    /\ sup_pc' = "idle"
    /\ sup_items' = {}
    /\ UNCHANGED <<queue_vars, sup_policy, ops, job, popped, status_vars, pool_vars>>

----------------------------------------------------------------------------
\* TranscodeQueue::prioritize

\* "read policy before locking queue".  Priorities are u64 in the code; the
\* supervisor of the model stops raising one at MaxPriority.
prioritize_read_policy(items) ==
    /\ sup_pc = "idle"
    /\ \A p \in DOMAIN queue \cap items : queue[p] < MaxPriority
    /\ sup_policy' = policy
    /\ sup_items' = items
    /\ sup_pc' = "prioritize_increase"
    /\ ops' = ops + 1
    /\ UNCHANGED <<queue_vars, worker_vars, status_vars, pool_vars>>

\* The block under the queue mutex: raise priorities, recount, store.
prioritize_increase ==
    /\ sup_pc = "prioritize_increase"
    /\ queue_lock = Unlocked
    /\ queue' = IncreasePriority(queue, sup_items)
    /\ ready_counter' = ReadyCount(sup_policy, queue')
    /\ sup_pc' = "prioritize_notify"
    /\ UNCHANGED <<policy, queue_lock, sup_policy, sup_items, ops>>
    /\ UNCHANGED <<worker_vars, status_vars, pool_vars>>

\* A prioritize that returns without the notify.
prioritize_no_notify ==
    /\ sup_pc = "prioritize_notify"
    /\ sup_pc' = "idle"
    /\ sup_items' = {}
    /\ UNCHANGED <<queue_vars, sup_policy, ops, worker_vars, status_vars, pool_vars>>

prioritize_notify ==
    /\ sup_pc = "prioritize_notify"
    /\ pc' = NotifyAll(pc)
    /\ sup_pc' = "idle"
    /\ sup_items' = {}
    /\ UNCHANGED <<queue_vars, sup_policy, ops, job, popped, status_vars, pool_vars>>

----------------------------------------------------------------------------
\* TranscodeQueue::remove_missing

remove_missing_read_policy(items) ==
    /\ sup_pc = "idle"
    /\ sup_policy' = policy
    /\ sup_items' = items
    /\ sup_pc' = "remove_missing_retain"
    /\ ops' = ops + 1
    /\ UNCHANGED <<queue_vars, worker_vars, status_vars, pool_vars>>

\* The block under the queue mutex: retain, recount, store.  No notify.
remove_missing_retain ==
    /\ sup_pc = "remove_missing_retain"
    /\ queue_lock = Unlocked
    /\ queue' = Retain(queue, sup_items)
    /\ ready_counter' = ReadyCount(sup_policy, queue')
    /\ sup_pc' = "remove_missing_return"
    /\ UNCHANGED <<policy, queue_lock, sup_policy, sup_items, ops>>
    /\ UNCHANGED <<worker_vars, status_vars, pool_vars>>

\* remove_missing returns without a notify.
remove_missing_return ==
    /\ sup_pc = "remove_missing_return"
    /\ sup_pc' = "idle"
    /\ sup_items' = {}
    /\ UNCHANGED <<queue_vars, sup_policy, ops, worker_vars, status_vars, pool_vars>>

----------------------------------------------------------------------------
\* TranscodeQueue::wait

\* self.queue.lock(), and the re-lock when Condvar::wait comes back.
wait_lock(w) ==
    /\ pc[w] = "wait_lock"
    /\ queue_lock = Unlocked
    /\ queue_lock' = w
    /\ pc' = [pc EXCEPT ![w] = "pop_if"]
    /\ UNCHANGED <<policy, queue, ready_counter, sup_vars, job, popped, status_vars, pool_vars>>

\* A pop_if that hands the item out and leaves it in the queue.
PopIfPeek(w, item) ==
    /\ item \in PeekMax(queue)
    /\ Admit(policy, queue[item])
    /\ UNCHANGED queue
    /\ job' = [job EXCEPT ![w] = item]
    /\ popped' = [popped EXCEPT ![w] =
                    [policy |-> policy, priority |-> queue[item], queue |-> queue]]
    /\ pc' = [pc EXCEPT ![w] = "fetch_sub"]

\* queue.pop_if(..): peek an item of greatest priority, read the policy under
\* the policy mutex, pop the item when the policy admits its priority.
PopIf(w, item) ==
    /\ item \in PeekMax(queue)
    /\ Admit(policy, queue[item])
    /\ queue' = Remove(queue, item)
    /\ job' = [job EXCEPT ![w] = item]
    /\ popped' = [popped EXCEPT ![w] =
                    [policy |-> policy, priority |-> queue[item], queue |-> queue]]
    /\ pc' = [pc EXCEPT ![w] = "fetch_sub"]

\* pop_if found the queue empty or the predicate said no.
PopIfNone(w) ==
    /\ \A item \in PeekMax(queue) : ~Admit(policy, queue[item])
    /\ pc' = [pc EXCEPT ![w] = "no_job"]
    /\ UNCHANGED <<queue, job, popped>>

wait_pop_if(w) ==
    /\ pc[w] = "pop_if"
    /\ queue_lock = w
    /\ \/ \E item \in Paths : PopIf(w, item)
       \/ PopIfNone(w)
    /\ UNCHANGED <<policy, ready_counter, queue_lock, sup_vars, status_vars, pool_vars>>

\* Some(..): fetch_sub(1) on the ready counter, return the item; the guard
\* of the queue mutex is dropped on return.
FetchSub(counter) == counter - 1

wait_fetch_sub(w) ==
    /\ pc[w] = "fetch_sub"
    /\ queue_lock = w
    /\ ready_counter' = FetchSub(ready_counter)
    /\ queue_lock' = Unlocked
    /\ popped' = [popped EXCEPT ![w] = NoPop]
    /\ pc' = [pc EXCEPT ![w] = "get_hash"]
    /\ UNCHANGED <<policy, queue, sup_vars, job, status_vars, pool_vars>>

\* None: self.ready.wait(queue) gives up the mutex and sleeps, atomically.
wait_sleep(w) ==
    /\ pc[w] = "no_job"
    /\ queue_lock = w
    /\ queue_lock' = Unlocked
    /\ pc' = [pc EXCEPT ![w] = "asleep"]
    /\ UNCHANGED <<policy, queue, ready_counter, sup_vars, job, popped, status_vars, pool_vars>>

\* Condvar::wait may come back without a notification.
spurious_wakeup(w) ==
    /\ pc[w] = "asleep"
    /\ pc' = [pc EXCEPT ![w] = "wait_lock"]
    /\ UNCHANGED <<queue_vars, sup_vars, job, popped, status_vars, pool_vars>>

----------------------------------------------------------------------------
\* TranscodeStatusCache::insert: add one to the counter of the new status,
\* replace the entry, take one from the counter of the status it replaced.
CounterAfterInsert(counter, variant, prev, status) ==
    counter + (IF status = variant THEN 1 ELSE 0) - (IF prev = variant THEN 1 ELSE 0)

insert(hash, status) ==
    /\ status_cache' = [status_cache EXCEPT ![hash] = status]
    /\ status_ready' = CounterAfterInsert(status_ready, "Ready", status_cache[hash], status)
    /\ status_failed' = CounterAfterInsert(status_failed, "Failed", status_cache[hash], status)

\* `continue` / the end of the loop body: the region guard is dropped and the
\* worker calls queue.wait() again.
NextJob(w) ==
    /\ pc' = [pc EXCEPT ![w] = "wait_lock"]
    /\ job' = [job EXCEPT ![w] = NoJob]
    /\ inprogress_counter' = inprogress_counter - 1

----------------------------------------------------------------------------
\* TranscodeWorker::run, one iteration after queue.wait() returned

\* inprogress_counter.entered(), hash_cache.get_hash(&job) and the look-up
\* "check if already transcoded".  Either get_hash fails, or the hash is
\* Ready already (both: the guard is dropped, next job), or the transcode
\* starts.
worker_get_hash(w) ==
    /\ pc[w] = "get_hash"
    /\ \/ /\ pc' = [pc EXCEPT ![w] = "wait_lock"]
          /\ job' = [job EXCEPT ![w] = NoJob]
          /\ UNCHANGED inprogress_counter
       \/ IF status_cache[HashOf(job[w])] = "Ready"
          THEN /\ pc' = [pc EXCEPT ![w] = "wait_lock"]
               /\ job' = [job EXCEPT ![w] = NoJob]
               /\ UNCHANGED inprogress_counter
          ELSE /\ pc' = [pc EXCEPT ![w] = "transcode"]
               /\ inprogress_counter' = inprogress_counter + 1
               /\ UNCHANGED job
    /\ UNCHANGED <<queue_vars, sup_vars, pool_vars, popped, status_cache, status_ready, status_failed>>

\* transcode(&job, &temp_path): an error sets the status to Failed.
worker_transcode(w) ==
    /\ pc[w] = "transcode"
    /\ \/ /\ insert(HashOf(job[w]), "Failed")
          /\ NextJob(w)
       \/ /\ pc' = [pc EXCEPT ![w] = "rename"]
          /\ UNCHANGED <<job, status_vars, pool_vars>>
    /\ UNCHANGED <<queue_vars, sup_vars, pool_vars, popped>>

\* std::fs::rename(&temp_path, &final_path): an error sets the status to
\* Failed, success sets it to Ready.
worker_rename(w) ==
    /\ pc[w] = "rename"
    /\ \/ insert(HashOf(job[w]), "Failed")
       \/ insert(HashOf(job[w]), "Ready")
    /\ NextJob(w)
    /\ UNCHANGED <<queue_vars, sup_vars, pool_vars, popped>>

----------------------------------------------------------------------------
\* The steps that finish a supervisor operation once it has begun.
SupervisorContinue ==
    \/ set_policy_recount
    \/ set_policy_notify
    \/ extend_push
    \/ extend_notify
    \/ prioritize_increase
    \/ prioritize_notify
    \/ remove_missing_retain
    \/ remove_missing_return

\* The supervisor issues at most MaxOps operations, on any sets of paths.
Supervisor ==
    \/ /\ ops < MaxOps
       /\ \/ \E p \in TranscodePolicy : set_policy_update(p)
          \/ \E items \in SUBSET Paths : extend_read_policy(items)
          \/ \E items \in SUBSET Paths : prioritize_read_policy(items)
          \/ \E items \in SUBSET Paths : remove_missing_read_policy(items)
    \/ SupervisorContinue

Worker(w) ==
    \/ wait_lock(w)
    \/ wait_pop_if(w)
    \/ wait_fetch_sub(w)
    \/ wait_sleep(w)
    \/ spurious_wakeup(w)
    \/ worker_get_hash(w)
    \/ worker_transcode(w)
    \/ worker_rename(w)

Next ==
    \/ Supervisor
    \/ \E w \in Workers : Worker(w)

Spec == Init /\ [][Next]_vars

\* The steps of a worker other than taking the queue mutex and waking up
\* without a notification.
WorkerContinue(w) ==
    \/ wait_pop_if(w)
    \/ wait_fetch_sub(w)
    \/ wait_sleep(w)
    \/ worker_get_hash(w)
    \/ worker_transcode(w)
    \/ worker_rename(w)

\* Fair scheduling: a thread that can run does run, a thread that asks for
\* the queue mutex gets it eventually, hashing and transcoding terminate.
\* The supervisor need not issue another operation and a condvar need not
\* wake up spuriously.
Fairness ==
    /\ SF_vars(SupervisorContinue)
    /\ \A w \in Workers : SF_vars(wait_lock(w)) /\ WF_vars(WorkerContinue(w))

\* The supervisor of the liveness checks issues at most MaxLiveOps
\* operations and draws its path sets from LiveItems.
LiveItems == {{"b"}, {"a", "b", "c"}}

LiveSupervisor ==
    \/ /\ ops < MaxLiveOps
       /\ \/ \E p \in TranscodePolicy : set_policy_update(p)
          \/ \E items \in LiveItems : extend_read_policy(items)
          \/ \E items \in LiveItems : prioritize_read_policy(items)
          \/ \E items \in LiveItems : remove_missing_read_policy(items)
    \/ SupervisorContinue

LiveNext ==
    \/ LiveSupervisor
    \/ \E w \in Workers : Worker(w)

FairSpec == Init /\ [][LiveNext]_vars /\ Fairness

----------------------------------------------------------------------------
\* TranscodePool::spawn: read_transcodes_dir, before the supervisor task and
\* the workers exist.  File operations on the entries of the directory
\* succeed.

\* The keys a file name can stand for: those of the sources, and one of a
\* hash kind get_file_hash never returns.
ScanHashes == Hashes \cup {"h3"}

\* The model hash that stands for a key of the status cache.
HashFor(key) == CHOOSE h \in ScanHashes : KeyOf(h) = key

\* std::fs::remove_file(path)
RemoveFile(dir, path) == [n \in DOMAIN dir \ {path} |-> dir[n]]

\* The status cache is empty and the directory holds any of DirEntries.
ScanInit ==
    /\ policy = Always
    /\ queue = EmptyQueue
    /\ ready_counter = 0
    /\ queue_lock = Unlocked
    /\ sup_pc = "idle"
    /\ sup_policy = policy
    /\ sup_items = {}
    /\ ops = 0
    /\ pc = [w \in Workers |-> "wait_lock"]
    /\ job = [w \in Workers |-> NoJob]
    /\ popped = [w \in Workers |-> NoPop]
    /\ status_cache = [h \in Hashes |-> "none"]
    /\ status_ready = 0
    /\ status_failed = 0
    /\ inprogress_counter = 0
    /\ call = [t \in Callers |-> Idle]
    /\ \E names \in SUBSET DirEntries :
          files = [n \in names |->
                     [type |-> IF n \in DirNames THEN "dir" ELSE "file",
                      len |-> LenOf(n)]]
    /\ ready_entry = [h \in Hashes |-> NoEntry]
    /\ scan = [pc |-> "read_dir", todo |-> {}, items |-> <<>>]
    /\ hash_cache = [p \in Paths |-> "none"]
    /\ fd = [w \in Workers |-> "closed"]
    /\ sup_work = NoWork
    /\ source = [p \in HashPaths |-> NoFile]
    /\ hash_db = [p \in HashPaths |-> NoRow]
    /\ audio = NoAudio
    /\ out = NoOutput
    /\ NoGuards

\* std::fs::read_dir(transcodes_dir)
scan_read_dir ==
    /\ scan.pc = "read_dir"
    /\ scan' = [pc |-> "parse", todo |-> DOMAIN files, items |-> <<>>]
    /\ UNCHANGED <<queue_vars, sup_vars, worker_vars, status_vars, call, hash_vars, transcode_vars, lock_vars, ios_vars, run_vars, files, ready_entry>>

\* What parse_transcodes_dir_entry returns for one entry: the tuple to
\* insert, or nothing (Ok(None) and Err(..) are both dropped by filter_map).
ParseEntry(dir, path) ==
    IF dir[path].type # "file" THEN ParseError
    ELSE IF path.ext # "ogg" THEN ParseError
    ELSE LET parsed == ParseStem(path.stem)
         IN  IF ~parsed.ok THEN ParseError
             ELSE [ok |-> TRUE, path |-> path, key |-> parsed.key,
                   size |-> dir[path].len]

\* A scan that leaves the temp files of previous runs in place.
scan_parse_keep_tmp(path) ==
    /\ scan.pc = "parse"
    /\ path \in scan.todo
    /\ LET res == ParseEntry(files, path)
       IN  scan' = [scan EXCEPT !.todo = @ \ {path},
                                !.items = IF res.ok THEN Append(@, res) ELSE @]
    /\ UNCHANGED <<queue_vars, sup_vars, worker_vars, status_vars, call, hash_vars, transcode_vars, lock_vars, ios_vars, run_vars, files, ready_entry>>

\* parse_transcodes_dir_entry on the next entry of the iterator: a regular
\* file with the extension "tmp" is removed.
scan_parse_entry(path) ==
    /\ scan.pc = "parse"
    /\ path \in scan.todo
    /\ LET res == ParseEntry(files, path)
       IN  scan' = [scan EXCEPT !.todo = @ \ {path},
                                !.items = IF res.ok THEN Append(@, res) ELSE @]
    /\ files' = IF files[path].type = "file" /\ path.ext = "tmp"
                THEN RemoveFile(files, path) ELSE files
    /\ UNCHANGED <<queue_vars, sup_vars, worker_vars, status_vars, call, hash_vars, transcode_vars, lock_vars, ios_vars, run_vars, ready_entry>>

\* .collect::<Vec<_>>() at the end of the iterator
scan_collect ==
    /\ scan.pc = "parse"
    /\ scan.todo = {}
    /\ scan' = [scan EXCEPT !.pc = "insert"]
    /\ UNCHANGED <<queue_vars, sup_vars, worker_vars, status_vars, call, hash_vars, transcode_vars, lock_vars, ios_vars, run_vars, files, ready_entry>>

\* "update status cache": status_cache.insert(.., Ready { transcode_path,
\* file_size }) for the next item of the vector.
scan_insert ==
    /\ scan.pc = "insert"
    /\ scan.items # <<>>
    /\ LET item == Head(scan.items)
       IN  /\ insert(HashFor(item.key), "Ready")
           /\ ready_entry' = [ready_entry EXCEPT ![HashFor(item.key)] =
                                 [path |-> item.path, size |-> item.size]]
    /\ scan' = [scan EXCEPT !.items = Tail(@)]
    /\ UNCHANGED <<queue_vars, sup_vars, worker_vars, inprogress_counter, call, hash_vars, transcode_vars, lock_vars, ios_vars, run_vars, files>>

\* read_transcodes_dir returns to spawn.
scan_return ==
    /\ scan.pc = "insert"
    /\ scan.items = <<>>
    /\ scan' = ScanDone
    /\ UNCHANGED <<queue_vars, sup_vars, worker_vars, status_vars, call, hash_vars, transcode_vars, lock_vars, ios_vars, run_vars, files, ready_entry>>

ScanNext ==
    \/ scan_read_dir
    \/ \E path \in DirEntries : scan_parse_entry(path)
    \/ scan_collect
    \/ scan_insert
    \/ scan_return

ScanSpec == ScanInit /\ [][ScanNext]_vars

----------------------------------------------------------------------------
\* The start-up scan of a directory that holds a file of another hash kind

KindEntries ==
    { Name(<<"xxh3", "-">> \o Repeat("a", 32), "ogg"),
      Name(<<"md5", "-">> \o Repeat("1", 32), "ogg"),
      Name(<<"sha1", "-">> \o Repeat("1", 32), "ogg"),
      Name(<<"xxh3", "-">> \o Repeat("a", 32), "tmp"),
      Name(<<"md5", "-">> \o Repeat("1", 30), "ogg"),
      Name(<<"garbage">>, "txt") }

\* The status cache is empty and the directory holds any of KindEntries, all
\* regular files.
KindInit ==
    /\ policy = Always
    /\ queue = EmptyQueue
    /\ ready_counter = 0
    /\ queue_lock = Unlocked
    /\ sup_pc = "idle"
    /\ sup_policy = policy
    /\ sup_items = {}
    /\ ops = 0
    /\ pc = [w \in Workers |-> "wait_lock"]
    /\ job = [w \in Workers |-> NoJob]
    /\ popped = [w \in Workers |-> NoPop]
    /\ status_cache = [h \in ScanHashes |-> "none"]
    /\ status_ready = 0
    /\ status_failed = 0
    /\ inprogress_counter = 0
    /\ call = [t \in Callers |-> Idle]
    /\ \E names \in SUBSET KindEntries :
          files = [n \in names |-> [type |-> "file", len |-> LenOf(n)]]
    /\ ready_entry = [h \in ScanHashes |-> NoEntry]
    /\ scan = [pc |-> "read_dir", todo |-> {}, items |-> <<>>]
    /\ hash_cache = [p \in Paths |-> "none"]
    /\ fd = [w \in Workers |-> "closed"]
    /\ sup_work = NoWork
    /\ source = [p \in HashPaths |-> NoFile]
    /\ hash_db = [p \in HashPaths |-> NoRow]
    /\ audio = NoAudio
    /\ out = NoOutput
    /\ NoGuards

KindNext ==
    \/ scan_read_dir
    \/ \E path \in KindEntries : scan_parse_entry(path)
    \/ scan_collect
    \/ scan_insert
    \/ scan_return

KindSpec == KindInit /\ [][KindNext]_vars

----------------------------------------------------------------------------
\* TranscodeStatusCache under concurrent callers.  insert is three accesses
\* other threads can see in between: the fetch_add on the counter of the new
\* status, DashMap::insert, the fetch_sub on the counter of the status it
\* replaced.  DashMap::retain visits the entries one after the other, each
\* under the write lock of its shard; the predicate of the callers
\* (delete_missing, delete_all) keeps or drops an entry.

Statuses == {"Ready", "Failed"}

\* The number of entries of one variant in the map.
CountOf(cache, variant) == Cardinality({h \in DOMAIN cache : cache[h] = variant})

\* self.ready_counter.fetch_add(1) / self.failed_counter.fetch_add(1), the
\* first thing insert does.
insert_fetch_add(t, hash, status) ==
    /\ call[t] = Idle
    /\ status_ready' = status_ready + (IF status = "Ready" THEN 1 ELSE 0)
    /\ status_failed' = status_failed + (IF status = "Failed" THEN 1 ELSE 0)
    /\ call' = [call EXCEPT ![t] = [op |-> "insert_map", hash |-> hash, status |-> status]]
    /\ UNCHANGED <<queue_vars, sup_vars, worker_vars, dir_vars, run_vars, hash_vars, transcode_vars, lock_vars, ios_vars, status_cache, inprogress_counter>>

\* let prev = self.cache.insert((hash_kind, hash), status); with no previous
\* entry insert returns.
insert_map(t) ==
    /\ call[t].op = "insert_map"
    /\ status_cache' = [status_cache EXCEPT ![call[t].hash] = call[t].status]
    /\ call' = [call EXCEPT ![t] =
                  IF status_cache[call[t].hash] = "none" THEN Idle
                  ELSE [op |-> "insert_sub", prev |-> status_cache[call[t].hash]]]
    /\ UNCHANGED <<queue_vars, sup_vars, worker_vars, dir_vars, run_vars, hash_vars, transcode_vars, lock_vars, ios_vars, status_ready, status_failed,
                   inprogress_counter>>

\* An insert that forgets the entry it replaced.
insert_no_fetch_sub(t) ==
    /\ call[t].op = "insert_sub"
    /\ call' = [call EXCEPT ![t] = Idle]
    /\ UNCHANGED <<queue_vars, sup_vars, worker_vars, dir_vars, run_vars, hash_vars, transcode_vars, lock_vars, ios_vars, status_vars>>

\* match prev: fetch_sub(1) on the counter of the replaced entry's variant.
insert_fetch_sub(t) ==
    /\ call[t].op = "insert_sub"
    /\ status_ready' = status_ready - (IF call[t].prev = "Ready" THEN 1 ELSE 0)
    /\ status_failed' = status_failed - (IF call[t].prev = "Failed" THEN 1 ELSE 0)
    /\ call' = [call EXCEPT ![t] = Idle]
    /\ UNCHANGED <<queue_vars, sup_vars, worker_vars, dir_vars, run_vars, hash_vars, transcode_vars, lock_vars, ios_vars, status_cache, inprogress_counter>>

\* self.cache.retain(..) begins: no entry visited yet.
retain_begin(t) ==
    /\ call[t] = Idle
    /\ call' = [call EXCEPT ![t] = [op |-> "retain", todo |-> Hashes]]
    /\ UNCHANGED <<queue_vars, sup_vars, worker_vars, dir_vars, run_vars, hash_vars, transcode_vars, lock_vars, ios_vars, status_vars>>

\* A retain whose closure takes one from the counter for every entry it
\* sees, kept or not.
retain_entry_sub_kept(t, hash, keep) ==
    /\ call[t].op = "retain"
    /\ hash \in call[t].todo
    /\ status_cache[hash] # "none"
    /\ status_ready' = status_ready - (IF status_cache[hash] = "Ready" THEN 1 ELSE 0)
    /\ status_failed' = status_failed - (IF status_cache[hash] = "Failed" THEN 1 ELSE 0)
    /\ status_cache' = IF keep THEN status_cache
                       ELSE [status_cache EXCEPT ![hash] = "none"]
    /\ call' = [call EXCEPT ![t].todo = @ \ {hash}]
    /\ UNCHANGED <<queue_vars, sup_vars, worker_vars, dir_vars, run_vars, hash_vars, transcode_vars, lock_vars, ios_vars, inprogress_counter>>

\* The closure of retain on one entry: keep = f(key, status); if !keep, the
\* counter of the entry's variant goes down by one and the entry is removed.
retain_entry(t, hash, keep) ==
    /\ call[t].op = "retain"
    /\ hash \in call[t].todo
    /\ status_cache[hash] # "none"
    /\ IF keep
       THEN UNCHANGED <<status_cache, status_ready, status_failed>>
       ELSE /\ status_ready' = status_ready - (IF status_cache[hash] = "Ready" THEN 1 ELSE 0)
            /\ status_failed' = status_failed - (IF status_cache[hash] = "Failed" THEN 1 ELSE 0)
            /\ status_cache' = [status_cache EXCEPT ![hash] = "none"]
    /\ call' = [call EXCEPT ![t].todo = @ \ {hash}]
    /\ UNCHANGED <<queue_vars, sup_vars, worker_vars, dir_vars, run_vars, hash_vars, transcode_vars, lock_vars, ios_vars, inprogress_counter>>

\* retain passes a key that has no entry when its shard is visited.
retain_skip(t, hash) ==
    /\ call[t].op = "retain"
    /\ hash \in call[t].todo
    /\ status_cache[hash] = "none"
    /\ call' = [call EXCEPT ![t].todo = @ \ {hash}]
    /\ UNCHANGED <<queue_vars, sup_vars, worker_vars, dir_vars, run_vars, hash_vars, transcode_vars, lock_vars, ios_vars, status_vars>>

\* retain returns after the last shard.
retain_return(t) ==
    /\ call[t].op = "retain"
    /\ call[t].todo = {}
    /\ call' = [call EXCEPT ![t] = Idle]
    /\ UNCHANGED <<queue_vars, sup_vars, worker_vars, dir_vars, run_vars, hash_vars, transcode_vars, lock_vars, ios_vars, status_vars>>

CacheNext ==
    \E t \in Callers :
        \/ \E hash \in Hashes, status \in Statuses : insert_fetch_add(t, hash, status)
        \/ insert_map(t)
        \/ insert_fetch_sub(t)
        \/ retain_begin(t)
        \/ \E hash \in Hashes, keep \in BOOLEAN : retain_entry(t, hash, keep)
        \/ \E hash \in Hashes : retain_skip(t, hash)
        \/ retain_return(t)

CacheSpec == Init /\ [][CacheNext]_vars

----------------------------------------------------------------------------
\* The pool: the commands of TranscodePool::run and the iterations of
\* TranscodeWorker::run, down to their file operations.  Each call into the
\* queue is one step here (a queue operation holds the queue mutex for what
\* it does to the queue, and only the supervisor writes the policy);
\* status_cache.insert is one step, its counters being the subject of
\* CacheSpec.  Every other access to the status cache, the hash cache or the
\* directory is a step of its own.

\* Number of events of the pool: the commands the supervisor receives other
\* than Prioritize (which MaxPriority bounds), and the changes of source
\* files.
MaxPoolOps == 2

\* The library the commands of the pool are about: two copies of one audio.
PoolPaths == {"a", "b"}

\* File::create: create the file, or truncate the one that is there.
CreateFile(dir, path) ==
    [n \in DOMAIN dir \cup {path} |->
        IF n = path THEN [type |-> "file", len |-> 0] ELSE dir[n]]

\* Bytes written through an open file reach the file wherever it is named.
WriteFile(dir, path, len) ==
    [n \in DOMAIN dir |-> IF n = path THEN [dir[n] EXCEPT !.len = len] ELSE dir[n]]

\* std::fs::rename(from, to): `to` is replaced when it exists.
RenameFile(dir, from, to) ==
    [n \in (DOMAIN dir \ {from}) \cup {to} |-> IF n = to THEN dir[from] ELSE dir[n]]

\* Workers v whose open output file is the one named `at` for this hash.
Holds(v, hash, at) == job[v] # NoJob /\ HashOf(job[v]) = hash /\ fd[v] = at

\* The open files after the temp file of `hash` was renamed to the final
\* path: the file that was at the final path is unlinked.
FdAfterRename(hash) ==
    [v \in Workers |->
        IF Holds(v, hash, "tmp") THEN "ogg"
        ELSE IF Holds(v, hash, "ogg") THEN "unlinked" ELSE fd[v]]

\* The open files after the file named `at` of `hash` was removed.
FdAfterRemove(hash, at) ==
    [v \in Workers |-> IF Holds(v, hash, at) THEN "unlinked" ELSE fd[v]]

\* A Load that does not prune the queue.
load_no_remove_missing(items) ==
    /\ sup_pc = "idle"
    /\ sup_items' = items
    /\ sup_work' = [todo |-> items, keep |-> {}]
    /\ sup_pc' = "load_filter"
    /\ ops' = ops + 1
    /\ UNCHANGED <<queue_vars, sup_policy, worker_vars, status_vars, call, hash_vars, transcode_vars, lock_vars, ios_vars, dir_vars,
                   hash_cache, fd>>

\* TranscodeCommand::Load(items), first call: queue.remove_missing(&items).
load_remove_missing(items) ==
    /\ sup_pc = "idle"
    /\ queue' = Retain(queue, items)
    /\ ready_counter' = ReadyCount(policy, queue')
    /\ sup_items' = items
    /\ sup_work' = [todo |-> items, keep |-> {}]
    /\ sup_pc' = "load_filter"
    /\ ops' = ops + 1
    /\ UNCHANGED <<policy, queue_lock, sup_policy, worker_vars, status_vars, call, hash_vars, transcode_vars, lock_vars, ios_vars, dir_vars,
                   hash_cache, fd>>

\* The closure of items.retain(..) on one item: true ("add to queue") when
\* get_cached_hash yields no hash (no row, a row that does not match the
\* file's metadata, or an error), or when the hash has no status.
FilterKeeps(item) ==
    hash_cache[item] # "valid" \/ status_cache[HashOf(item)] = "none"

\* A filter that only skips the hashes that are Ready.
load_filter_ready_only(item) ==
    /\ sup_pc = "load_filter"
    /\ item \in sup_work.todo
    /\ sup_work' = [todo |-> sup_work.todo \ {item},
                    keep |-> IF hash_cache[item] # "valid"
                                \/ status_cache[HashOf(item)] # "Ready"
                             THEN sup_work.keep \cup {item} ELSE sup_work.keep]
    /\ UNCHANGED <<queue_vars, sup_vars, worker_vars, status_vars, call, hash_vars, transcode_vars, lock_vars, ios_vars, dir_vars,
                   hash_cache, fd>>

\* "filter out items that are already transcoded", one item
load_filter(item) ==
    /\ sup_pc = "load_filter"
    /\ item \in sup_work.todo
    /\ sup_work' = [todo |-> sup_work.todo \ {item},
                    keep |-> IF FilterKeeps(item)
                             THEN sup_work.keep \cup {item} ELSE sup_work.keep]
    /\ UNCHANGED <<queue_vars, sup_vars, worker_vars, status_vars, call, hash_vars, transcode_vars, lock_vars, ios_vars, dir_vars,
                   hash_cache, fd>>

\* if !items.is_empty() { .. queue.extend(items); }  The size estimation
\* task spawned before it reads and writes no state of the model.
load_extend ==
    /\ sup_pc = "load_filter"
    /\ sup_work.todo = {}
    /\ IF sup_work.keep # {}
       THEN /\ queue' = ExtendQueue(queue, sup_work.keep)
            /\ ready_counter' = ReadyCount(policy, queue')
       ELSE UNCHANGED <<queue, ready_counter>>
    /\ sup_pc' = "idle"
    /\ sup_items' = {}
    /\ sup_work' = NoWork
    /\ UNCHANGED <<policy, queue_lock, sup_policy, ops, worker_vars, status_vars, call, hash_vars, transcode_vars, lock_vars, ios_vars,
                   dir_vars, hash_cache, fd>>

\* TranscodeCommand::Prioritize(items): queue.prioritize(items)
pool_prioritize(items) ==
    /\ sup_pc = "idle"
    /\ \A p \in DOMAIN queue \cap items : queue[p] < MaxPriority
    /\ queue' = IncreasePriority(queue, items)
    /\ ready_counter' = ReadyCount(policy, queue')
    /\ UNCHANGED <<ops, policy, queue_lock, sup_pc, sup_policy, sup_items, worker_vars,
                   status_vars, pool_vars>>

\* TranscodeCommand::SetPolicy(policy): queue.set_policy(policy)
pool_set_policy(p) ==
    /\ sup_pc = "idle"
    /\ policy' = p
    /\ sup_policy' = p
    /\ ready_counter' = ReadyCount(p, queue)
    /\ ops' = ops + 1
    /\ UNCHANGED <<queue, queue_lock, sup_pc, sup_items, worker_vars, status_vars, pool_vars>>

\* TranscodeCommand::DeleteMissing(items): hash_cache.batch_get_hash(items).
\* A path whose metadata or hash cannot be read is left out of the set; the
\* rows of the others are valid afterwards.
delete_missing_hash(items, unreadable) ==
    /\ sup_pc = "idle"
    /\ unreadable \subseteq items
    /\ hash_cache' = [p \in Paths |->
                        IF p \in items \ unreadable THEN "valid" ELSE hash_cache[p]]
    /\ sup_items' = items
    /\ sup_work' = [todo |-> Hashes, keep |-> {HashOf(p) : p \in items \ unreadable}]
    /\ sup_pc' = "retain"
    /\ ops' = ops + 1
    /\ UNCHANGED <<queue_vars, sup_policy, worker_vars, status_vars, call, hash_vars, transcode_vars, lock_vars, ios_vars, dir_vars, fd>>

\* TranscodeCommand::DeleteMissing(items) when batch_get_hash returns an
\* error (the database refused the look-up or the new rows): the error is
\* logged and nothing is deleted.
delete_missing_error(items) ==
    /\ sup_pc = "idle"
    /\ ops' = ops + 1
    /\ UNCHANGED <<queue_vars, sup_pc, sup_policy, sup_items, worker_vars, status_vars,
                   pool_vars>>

\* TranscodeCommand::DeleteAll: delete_all calls status_cache.retain.
delete_all_begin ==
    /\ sup_pc = "idle"
    /\ sup_work' = [todo |-> Hashes, keep |-> {}]
    /\ sup_pc' = "retain_all"
    /\ ops' = ops + 1
    /\ UNCHANGED <<queue_vars, sup_policy, sup_items, worker_vars, status_vars, call, hash_vars, transcode_vars, lock_vars, ios_vars,
                   dir_vars, hash_cache, fd>>

\* std::fs::remove_file(transcode_path) in the closures of retain: the file
\* is removed, or the call fails (logged) and the directory stays as it is.
RemoveTranscode(hash, removed) ==
    IF removed
    THEN /\ files' = RemoveFile(files, ready_entry[hash].path)
         /\ fd' = IF ready_entry[hash].path = FinalPath(hash)
                  THEN FdAfterRemove(hash, "ogg") ELSE fd
    ELSE UNCHANGED <<files, fd>>

\* The entry of `hash` leaves the map inside retain: one is taken from the
\* counter of its variant.
RemoveReady(hash) ==
    /\ status_cache' = [status_cache EXCEPT ![hash] = "none"]
    /\ status_ready' = status_ready - 1
    /\ ready_entry' = [ready_entry EXCEPT ![hash] = NoEntry]

\* A delete_missing that drops the Ready entries whose hash is in the set.
delete_retain_present(hash) ==
    /\ sup_pc = "retain"
    /\ hash \in sup_work.todo
    /\ sup_work' = [sup_work EXCEPT !.todo = @ \ {hash}]
    /\ IF status_cache[hash] = "Ready" /\ hash \in sup_work.keep
       THEN RemoveTranscode(hash, TRUE) /\ RemoveReady(hash)
       ELSE UNCHANGED <<files, fd, status_cache, status_ready, ready_entry>>
    /\ UNCHANGED <<queue_vars, sup_vars, worker_vars, status_failed, inprogress_counter,
                   call, hash_vars, transcode_vars, lock_vars, ios_vars, scan, hash_cache>>

\* The closure of status_cache.retain(..) in delete_missing on one entry: a
\* Ready entry whose hash is not in the set has its file removed (an error
\* is logged), is discounted and leaves the map.
delete_retain(hash) ==
    /\ sup_pc = "retain"
    /\ hash \in sup_work.todo
    /\ sup_work' = [sup_work EXCEPT !.todo = @ \ {hash}]
    /\ IF status_cache[hash] = "Ready" /\ hash \notin sup_work.keep
       THEN /\ \E removed \in BOOLEAN : RemoveTranscode(hash, removed)
            /\ RemoveReady(hash)
       ELSE UNCHANGED <<files, fd, status_cache, status_ready, ready_entry>>
    /\ UNCHANGED <<queue_vars, sup_vars, worker_vars, status_failed, inprogress_counter,
                   call, hash_vars, transcode_vars, lock_vars, ios_vars, scan, hash_cache>>

\* A delete_all that keeps the entry when its file cannot be removed.
delete_all_retain_keep_on_error(hash) ==
    /\ sup_pc = "retain_all"
    /\ hash \in sup_work.todo
    /\ sup_work' = [sup_work EXCEPT !.todo = @ \ {hash}]
    /\ IF status_cache[hash] = "Ready"
       THEN \/ RemoveTranscode(hash, TRUE) /\ RemoveReady(hash)
            \/ UNCHANGED <<files, fd, status_cache, status_ready, ready_entry>>
       ELSE UNCHANGED <<files, fd, status_cache, status_ready, ready_entry>>
    /\ UNCHANGED <<queue_vars, sup_vars, worker_vars, status_failed, inprogress_counter,
                   call, hash_vars, transcode_vars, lock_vars, ios_vars, scan, hash_cache>>

\* The closure of status_cache.retain(..) in delete_all on one entry: a Ready
\* entry has its file removed (an error is logged), is discounted and leaves
\* the map.
delete_all_retain(hash) ==
    /\ sup_pc = "retain_all"
    /\ hash \in sup_work.todo
    /\ sup_work' = [sup_work EXCEPT !.todo = @ \ {hash}]
    /\ IF status_cache[hash] = "Ready"
       THEN /\ \E removed \in BOOLEAN : RemoveTranscode(hash, removed)
            /\ RemoveReady(hash)
       ELSE UNCHANGED <<files, fd, status_cache, status_ready, ready_entry>>
    /\ UNCHANGED <<queue_vars, sup_vars, worker_vars, status_failed, inprogress_counter,
                   call, hash_vars, transcode_vars, lock_vars, ios_vars, scan, hash_cache>>

\* delete_missing / delete_all return.
delete_return ==
    /\ sup_pc \in {"retain", "retain_all"}
    /\ sup_work.todo = {}
    /\ sup_pc' = "idle"
    /\ sup_items' = {}
    /\ sup_work' = NoWork
    /\ UNCHANGED <<queue_vars, sup_policy, ops, worker_vars, status_vars, call, hash_vars, transcode_vars, lock_vars, ios_vars, dir_vars,
                   hash_cache, fd>>

\* The source file of a path changes on disk: its row no longer matches,
\* which get_cached_hash and get_hash treat like a missing row.
source_modified(path) ==
    /\ hash_cache[path] = "valid"
    /\ hash_cache' = [hash_cache EXCEPT ![path] = "none"]
    /\ ops < MaxPoolOps
    /\ ops' = ops + 1
    /\ UNCHANGED <<queue_vars, sup_pc, sup_policy, sup_items, worker_vars, status_vars, call, hash_vars, transcode_vars, lock_vars, ios_vars, dir_vars, fd, sup_work>>

\* let job = queue.wait(): the call returns with an admitted item of
\* greatest priority, popped and discounted.
run_wait(w) ==
    /\ pc[w] = "wait_lock"
    /\ \E item \in PeekMax(queue) :
          /\ Admit(policy, queue[item])
          /\ queue' = Remove(queue, item)
          /\ job' = [job EXCEPT ![w] = item]
    /\ ready_counter' = FetchSub(ready_counter)
    /\ pc' = [pc EXCEPT ![w] = "get_hash"]
    /\ UNCHANGED <<policy, queue_lock, sup_vars, popped, status_vars, pool_vars>>

\* inprogress_counter.entered() and hash_cache.get_hash(&job): the hash, with
\* a valid row in the hash cache, or an error, on which the guard is dropped
\* and the next job is waited for.
run_get_hash(w) ==
    /\ pc[w] = "get_hash"
    /\ \/ /\ hash_cache' = [hash_cache EXCEPT ![job[w]] = "valid"]
          /\ inprogress_counter' = inprogress_counter + 1
          /\ pc' = [pc EXCEPT ![w] = "check"]
          /\ UNCHANGED job
       \/ /\ pc' = [pc EXCEPT ![w] = "wait_lock"]
          /\ job' = [job EXCEPT ![w] = NoJob]
          /\ UNCHANGED <<hash_cache, inprogress_counter>>
    /\ UNCHANGED <<queue_vars, sup_vars, popped, status_cache, status_ready, status_failed,
                   call, hash_vars, transcode_vars, lock_vars, ios_vars, dir_vars, fd, sup_work>>

\* "check if already transcoded": a Ready entry ends the iteration.
run_check(w) ==
    /\ pc[w] = "check"
    /\ IF status_cache[HashOf(job[w])] = "Ready"
       THEN NextJob(w)
       ELSE /\ pc' = [pc EXCEPT ![w] = "transcode"]
            /\ UNCHANGED <<job, inprogress_counter>>
    /\ UNCHANGED <<queue_vars, sup_vars, popped, status_cache, status_ready, status_failed,
                   pool_vars>>

\* transcode(): File::create(output_path), after the input was decoded.
run_transcode_create(w) ==
    /\ pc[w] = "transcode"
    /\ files' = CreateFile(files, TempPath(HashOf(job[w])))
    /\ fd' = [fd EXCEPT ![w] = "tmp"]
    /\ pc' = [pc EXCEPT ![w] = "writing"]
    /\ UNCHANGED <<queue_vars, sup_vars, job, popped, status_vars, call, hash_vars, transcode_vars, lock_vars, ios_vars, ready_entry, scan,
                   hash_cache, sup_work>>

\* The file a worker's open output file is, if it still has a name.
OpenPath(w) ==
    IF fd[w] = "tmp" THEN TempPath(HashOf(job[w])) ELSE FinalPath(HashOf(job[w]))

\* transcode(): the packets are written and the file is closed; Ok(file_size).
run_transcode_write(w) ==
    /\ pc[w] = "writing"
    /\ files' = IF fd[w] \in {"tmp", "ogg"} THEN WriteFile(files, OpenPath(w), 1) ELSE files
    /\ fd' = [fd EXCEPT ![w] = "closed"]
    /\ pc' = [pc EXCEPT ![w] = "rename"]
    /\ UNCHANGED <<queue_vars, sup_vars, job, popped, status_vars, call, hash_vars, transcode_vars, lock_vars, ios_vars, ready_entry, scan,
                   hash_cache, sup_work>>

\* A worker that leaves the temp file behind when the transcoder fails.
run_transcode_error_keep(w) ==
    /\ pc[w] \in {"transcode", "writing"}
    /\ fd' = [fd EXCEPT ![w] = "closed"]
    /\ pc' = [pc EXCEPT ![w] = "insert_failed"]
    /\ UNCHANGED <<queue_vars, sup_vars, job, popped, status_vars, call, hash_vars, transcode_vars, lock_vars, ios_vars, dir_vars,
                   hash_cache, sup_work>>

\* transcode() returns Err(e), before or after File::create: "try to remove
\* the temp file".
run_transcode_error(w) ==
    /\ pc[w] \in {"transcode", "writing"}
    /\ files' = RemoveFile(files, TempPath(HashOf(job[w])))
    /\ fd' = [FdAfterRemove(HashOf(job[w]), "tmp") EXCEPT ![w] = "closed"]
    /\ pc' = [pc EXCEPT ![w] = "insert_failed"]
    /\ UNCHANGED <<queue_vars, sup_vars, job, popped, status_vars, call, hash_vars, transcode_vars, lock_vars, ios_vars, ready_entry, scan,
                   hash_cache, sup_work>>

\* A worker that goes back to queue.wait() when the rename fails.
run_rename_skip(w) ==
    /\ pc[w] = "rename"
    /\ \/ /\ TempPath(HashOf(job[w])) \in DOMAIN files
          /\ files' = RenameFile(files, TempPath(HashOf(job[w])), FinalPath(HashOf(job[w])))
          /\ fd' = FdAfterRename(HashOf(job[w]))
          /\ pc' = [pc EXCEPT ![w] = "insert_ready"]
          /\ UNCHANGED <<job, inprogress_counter>>
       \/ /\ NextJob(w)
          /\ UNCHANGED <<files, fd>>
    /\ UNCHANGED <<queue_vars, sup_vars, popped, status_cache, status_ready, status_failed,
                   call, hash_vars, transcode_vars, lock_vars, ios_vars, ready_entry, scan, hash_cache, sup_work>>

\* std::fs::rename(&temp_path, &final_path): an error when the temp file is
\* not there, or for another reason.
run_rename(w) ==
    /\ pc[w] = "rename"
    /\ \/ /\ TempPath(HashOf(job[w])) \in DOMAIN files
          /\ files' = RenameFile(files, TempPath(HashOf(job[w])), FinalPath(HashOf(job[w])))
          /\ fd' = FdAfterRename(HashOf(job[w]))
          /\ pc' = [pc EXCEPT ![w] = "insert_ready"]
       \/ /\ pc' = [pc EXCEPT ![w] = "insert_failed"]
          /\ UNCHANGED <<files, fd>>
    /\ UNCHANGED <<queue_vars, sup_vars, job, popped, status_vars, call, hash_vars, transcode_vars, lock_vars, ios_vars, ready_entry, scan,
                   hash_cache, sup_work>>

\* "set status to Ready", with the final path and the size transcode returned.
run_insert_ready(w) ==
    /\ pc[w] = "insert_ready"
    /\ insert(HashOf(job[w]), "Ready")
    /\ ready_entry' = [ready_entry EXCEPT ![HashOf(job[w])] =
                          [path |-> FinalPath(HashOf(job[w])), size |-> 1]]
    /\ NextJob(w)
    /\ UNCHANGED <<queue_vars, sup_vars, popped, call, hash_vars, transcode_vars, lock_vars, ios_vars, files, scan, run_vars>>

\* "set status to Failed", after the transcoder or the rename failed.
run_insert_failed(w) ==
    /\ pc[w] = "insert_failed"
    /\ insert(HashOf(job[w]), "Failed")
    /\ ready_entry' = [ready_entry EXCEPT ![HashOf(job[w])] = NoEntry]
    /\ NextJob(w)
    /\ UNCHANGED <<queue_vars, sup_vars, popped, call, hash_vars, transcode_vars, lock_vars, ios_vars, files, scan, run_vars>>

PoolSupervisor ==
    \/ /\ ops < MaxPoolOps
       /\ \/ \E items \in SUBSET PoolPaths : load_remove_missing(items)
          \/ \E p \in TranscodePolicy : pool_set_policy(p)
    \/ \E items \in SUBSET PoolPaths : pool_prioritize(items)
    \/ \E item \in Paths : load_filter(item)
    \/ load_extend

PoolWorker(w) ==
    \/ run_wait(w)
    \/ run_get_hash(w)
    \/ run_check(w)
    \/ run_transcode_create(w)
    \/ run_transcode_write(w)
    \/ run_transcode_error(w)
    \/ run_rename(w)
    \/ run_insert_ready(w)
    \/ run_insert_failed(w)

PoolNext ==
    \/ PoolSupervisor
    \/ \E w \in Workers : PoolWorker(w)
    \/ \E path \in PoolPaths : source_modified(path)

\* The pool after spawn on an empty directory.
PoolSpec == Init /\ [][PoolNext]_vars

----------------------------------------------------------------------------
\* The pool with the commands that delete transcodes

\* The hashes whose transcode may be in the directory at spawn: those of the
\* sources that no Load names.
ScannedHashes == Hashes \ {HashOf(p) : p \in PoolPaths}

\* The state after spawn on a directory that holds the transcodes of any of
\* these hashes: read_transcodes_dir has inserted a Ready entry for each.
DeleteInit ==
    /\ policy = Always
    /\ queue = EmptyQueue
    /\ ready_counter = 0
    /\ queue_lock = Unlocked
    /\ sup_pc = "idle"
    /\ sup_policy = policy
    /\ sup_items = {}
    /\ ops = 0
    /\ pc = [w \in Workers |-> "wait_lock"]
    /\ job = [w \in Workers |-> NoJob]
    /\ popped = [w \in Workers |-> NoPop]
    /\ \E found \in SUBSET ScannedHashes :
          /\ files = [n \in {FinalPath(h) : h \in found} |-> [type |-> "file", len |-> 1]]
          /\ status_cache = [h \in Hashes |-> IF h \in found THEN "Ready" ELSE "none"]
          /\ ready_entry = [h \in Hashes |->
                IF h \in found THEN [path |-> FinalPath(h), size |-> 1] ELSE NoEntry]
          /\ status_ready = Cardinality(found)
    /\ status_failed = 0
    /\ inprogress_counter = 0
    /\ call = [t \in Callers |-> Idle]
    /\ scan = ScanDone
    /\ hash_cache = [p \in Paths |-> "none"]
    /\ fd = [w \in Workers |-> "closed"]
    /\ sup_work = NoWork
    /\ source = [p \in HashPaths |-> NoFile]
    /\ hash_db = [p \in HashPaths |-> NoRow]
    /\ audio = NoAudio
    /\ out = NoOutput
    /\ NoGuards

\* The paths DeleteMissing is given: one source of each hash.
DeletePaths == {"a", "c"}

DeleteSupervisor ==
    \/ /\ ops < MaxPoolOps
       /\ \/ \E items \in SUBSET PoolPaths : load_remove_missing(items)
          \/ \E items \in SUBSET DeletePaths, unreadable \in SUBSET DeletePaths :
                delete_missing_hash(items, unreadable)
          \/ \E items \in SUBSET DeletePaths : delete_missing_error(items)
          \/ delete_all_begin
    \/ \E item \in Paths : load_filter(item)
    \/ load_extend
    \/ \E hash \in Hashes : delete_retain(hash)
    \/ \E hash \in Hashes : delete_all_retain(hash)
    \/ delete_return

DeleteNext ==
    \/ DeleteSupervisor
    \/ \E w \in Workers : PoolWorker(w)

DeleteSpec == DeleteInit /\ [][DeleteNext]_vars

----------------------------------------------------------------------------
\* HashCache: get_cached_hash, get_hash and batch_get_hash over the file-hash
\* rows of the database, with the source files changing under them.  The
\* database is opaque storage with atomic operations: a look-up returns the
\* row of the path, an insert replaces it.

\* Number of times a source file is written, touched or removed.
MaxSourceWrites == 2

\* File times are finer than the seconds the cache keeps: ticks per second.
TicksPerSecond == 2

\* Sizes, modification times (in ticks since the epoch, one of them before
\* it) and audio contents of a source file.
Sizes == {1, 2}
Mtimes == -1 .. TicksPerSecond
Sources == [exists : {TRUE}, size : Sizes, mtime : Mtimes, content : Hashes]

\* The threads that call into the hash cache: the supervisor of the pool and
\* its workers.
HashSupervisor == "t1"
HashWorkers == {"t2"}

\* metadata.modified() ... .duration_since(UNIX_EPOCH).unwrap_or_default()
\* .as_secs(): whole seconds, 0 for a time before the epoch.
AsSecs(mtime) == IF mtime < 0 THEN 0 ELSE mtime \div TicksPerSecond

\* CacheKey::read_metadata of an existing file.
ReadMetadata(file) == [file_size |-> file.size, modified_at |-> AsSecs(file.mtime)]

\* CacheKey::matches_file_hash
MatchesFileHash(key, row) ==
    key.file_size = row.last_file_size /\ key.modified_at = row.last_modified_at

\* The row get_hash and batch_get_hash insert.
InsertFileHash(key, hash) ==
    [present |-> TRUE, last_file_size |-> key.file_size,
     last_modified_at |-> key.modified_at, hash |-> hash]

\* The database, as the pool consumes it: get_file_hash_by_path returns the
\* row of the path if there is one, get_file_hashes_by_paths the rows of the
\* paths, insert_file_hash and insert_file_hashes replace the row of a path.
GetFileHashByPath(db, path) == db[path]
GetFileHashesByPaths(db, paths) == [p \in paths |-> db[p]]
InsertFileHashes(db, inserts) ==
    [p \in DOMAIN db |->
        IF \E i \in inserts : i.path = p
        THEN (CHOOSE i \in inserts : i.path = p).row
        ELSE db[p]]

\* Results of the calls.
Returned(fn, path, result) == [op |-> "returned", fn |-> fn, path |-> path, result |-> result]
ResultErr == [ok |-> FALSE]
ResultNone == [ok |-> TRUE, some |-> FALSE]
ResultSome(hash) == [ok |-> TRUE, some |-> TRUE, key |-> KeyOf(hash)]

\* A caller is between two calls.
CanCall(t) == call[t].op \in {"idle", "returned"}

\* The source file of a path is created, rewritten or touched.
source_write(path, file) ==
    /\ ops < MaxSourceWrites
    /\ file # source[path]
    /\ source' = [source EXCEPT ![path] = file]
    /\ ops' = ops + 1
    /\ UNCHANGED <<queue_vars, sup_pc, sup_policy, sup_items, worker_vars, status_vars,
                   call, dir_vars, run_vars, hash_db, transcode_vars, lock_vars, ios_vars>>

\* The source file of a path is removed.
source_remove(path) ==
    /\ ops < MaxSourceWrites
    /\ source[path] # NoFile
    /\ source' = [source EXCEPT ![path] = NoFile]
    /\ ops' = ops + 1
    /\ UNCHANGED <<queue_vars, sup_pc, sup_policy, sup_items, worker_vars, status_vars,
                   call, dir_vars, run_vars, hash_db, transcode_vars, lock_vars, ios_vars>>

\* What every step of a caller of the hash cache leaves alone.
HashCallUnchanged ==
    UNCHANGED <<queue_vars, sup_vars, worker_vars, status_vars, dir_vars, run_vars, source,
                transcode_vars, lock_vars, ios_vars>>

\* get_cached_hash / get_hash: let key = CacheKey::read_metadata(path)?
call_read_metadata(t, fn, path) ==
    /\ CanCall(t)
    /\ call' = [call EXCEPT ![t] =
          IF source[path] = NoFile
          THEN Returned(fn, path, ResultErr)
          ELSE [op |-> fn, pc |-> "lookup", path |-> path,
                key |-> ReadMetadata(source[path])]]
    /\ HashCallUnchanged /\ UNCHANGED hash_db

get_cached_hash_read_metadata(t, path) ==
    call_read_metadata(t, "get_cached_hash", path)

get_hash_read_metadata(t, path) ==
    call_read_metadata(t, "get_hash", path)

\* get_cached_hash / get_hash: db.get_file_hash_by_path(path)?
call_lookup(t, fn) ==
    /\ call[t].op = fn
    /\ call[t].pc = "lookup"
    /\ call' = [call EXCEPT ![t] =
          [op |-> fn, pc |-> "match", path |-> call[t].path, key |-> call[t].key,
           cached |-> GetFileHashByPath(hash_db, call[t].path)]]
    /\ HashCallUnchanged /\ UNCHANGED hash_db

get_cached_hash_lookup(t) == call_lookup(t, "get_cached_hash")

get_hash_lookup(t) == call_lookup(t, "get_hash")

\* The row the call found matches the metadata it read.
CachedMatches(c) == c.cached.present /\ MatchesFileHash(c.key, c.cached)

\* A get_cached_hash that returns the row it found without comparing.
get_cached_hash_return_any(t) ==
    /\ call[t].op = "get_cached_hash"
    /\ call[t].pc = "match"
    /\ call' = [call EXCEPT ![t] = Returned("get_cached_hash", call[t].path,
          IF call[t].cached.present
          THEN ResultSome(call[t].cached.hash) ELSE ResultNone)]
    /\ HashCallUnchanged /\ UNCHANGED hash_db

\* get_cached_hash: Some(stored hash) when the row matches, else None.
get_cached_hash_return(t) ==
    /\ call[t].op = "get_cached_hash"
    /\ call[t].pc = "match"
    /\ call' = [call EXCEPT ![t] = Returned("get_cached_hash", call[t].path,
          IF CachedMatches(call[t])
          THEN ResultSome(call[t].cached.hash) ELSE ResultNone)]
    /\ HashCallUnchanged /\ UNCHANGED hash_db

\* get_hash: the stored hash when the row matches, else go on to compute.
get_hash_match(t) ==
    /\ call[t].op = "get_hash"
    /\ call[t].pc = "match"
    /\ call' = [call EXCEPT ![t] =
          IF CachedMatches(call[t])
          THEN Returned("get_hash", call[t].path, ResultSome(call[t].cached.hash))
          ELSE [op |-> "get_hash", pc |-> "get_file_hash", path |-> call[t].path,
                key |-> call[t].key]]
    /\ HashCallUnchanged /\ UNCHANGED hash_db

\* get_hash: get_file_hash(path)? reads the file as it is now; it fails when
\* the file is gone or cannot be decoded.
get_hash_get_file_hash(t) ==
    /\ call[t].op = "get_hash"
    /\ call[t].pc = "get_file_hash"
    /\ \/ /\ source[call[t].path] # NoFile
          /\ call' = [call EXCEPT ![t] =
                [op |-> "get_hash", pc |-> "insert", path |-> call[t].path,
                 key |-> call[t].key, hash |-> source[call[t].path].content]]
       \/ call' = [call EXCEPT ![t] = Returned("get_hash", call[t].path, ResultErr)]
    /\ HashCallUnchanged /\ UNCHANGED hash_db

\* get_hash: db.insert_file_hash(..) with the metadata read at the start.
get_hash_insert(t) ==
    /\ call[t].op = "get_hash"
    /\ call[t].pc = "insert"
    /\ hash_db' = InsertFileHashes(hash_db,
          {[path |-> call[t].path, row |-> InsertFileHash(call[t].key, call[t].hash)]})
    /\ call' = [call EXCEPT ![t] =
          Returned("get_hash", call[t].path, ResultSome(call[t].hash))]
    /\ HashCallUnchanged

\* batch_get_hash(paths): db.get_file_hashes_by_paths(..)?, the rows of all
\* paths, or the error of the database.
batch_get_hash_lookup(t, paths) ==
    /\ CanCall(t)
    /\ \/ call' = [call EXCEPT ![t] =
             [op |-> "batch_get_hash", paths |-> paths, todo |-> paths,
              cached |-> GetFileHashesByPaths(hash_db, paths),
              hashes |-> {}, inserts |-> {}, failed |-> {}]]
       \/ call' = [call EXCEPT ![t] =
             [op |-> "returned", fn |-> "batch_get_hash", paths |-> paths,
              result |-> ResultErr]]
    /\ HashCallUnchanged /\ UNCHANGED hash_db

\* A batch_get_hash that returns the error of the first file it cannot read.
batch_get_hash_path_fatal(t, path) ==
    /\ call[t].op = "batch_get_hash"
    /\ path \in call[t].todo
    /\ \/ call' = [call EXCEPT ![t] =
             [op |-> "returned", fn |-> "batch_get_hash", paths |-> call[t].paths,
              result |-> ResultErr]]
       \/ /\ source[path] # NoFile
          /\ LET key == ReadMetadata(source[path])
                 row == call[t].cached[path]
             IN  call' = [call EXCEPT
                    ![t].todo = @ \ {path},
                    ![t].hashes = @ \cup
                        {IF row.present /\ MatchesFileHash(key, row)
                         THEN row.hash ELSE source[path].content},
                    ![t].inserts = @ \cup
                        (IF row.present /\ MatchesFileHash(key, row)
                         THEN {}
                         ELSE {[path |-> path,
                                row |-> InsertFileHash(key, source[path].content)]})]
    /\ HashCallUnchanged /\ UNCHANGED hash_db

\* batch_get_hash, the closure of par_iter().map on one path: metadata, the
\* cached hash when the row matches, else get_file_hash; a path that cannot
\* be read gives None, with a warning in the log (failed).
batch_get_hash_path(t, path) ==
    /\ call[t].op = "batch_get_hash"
    /\ path \in call[t].todo
    /\ \/ call' = [call EXCEPT ![t].todo = @ \ {path}, ![t].failed = @ \cup {path}]
       \/ /\ source[path] # NoFile
          /\ LET key == ReadMetadata(source[path])
                 row == call[t].cached[path]
             IN  call' = [call EXCEPT
                    ![t].todo = @ \ {path},
                    ![t].hashes = @ \cup
                        {IF row.present /\ MatchesFileHash(key, row)
                         THEN row.hash ELSE source[path].content},
                    ![t].inserts = @ \cup
                        (IF row.present /\ MatchesFileHash(key, row)
                         THEN {}
                         ELSE {[path |-> path,
                                row |-> InsertFileHash(key, source[path].content)]})]
    /\ HashCallUnchanged /\ UNCHANGED hash_db

\* batch_get_hash: db.insert_file_hashes(..)? and Ok(all_hashes), or the
\* error of the database.
batch_get_hash_insert(t) ==
    /\ call[t].op = "batch_get_hash"
    /\ call[t].todo = {}
    /\ \/ /\ hash_db' = InsertFileHashes(hash_db, call[t].inserts)
          /\ call' = [call EXCEPT ![t] =
                [op |-> "returned", fn |-> "batch_get_hash", paths |-> call[t].paths,
                 failed |-> call[t].failed,
                 result |-> [ok |-> TRUE, hashes |-> {KeyOf(h) : h \in call[t].hashes}]]]
       \/ /\ call' = [call EXCEPT ![t] =
                [op |-> "returned", fn |-> "batch_get_hash", paths |-> call[t].paths,
                 result |-> ResultErr]]
          /\ UNCHANGED hash_db
    /\ HashCallUnchanged

\* The supervisor thread calls get_cached_hash (Load) and batch_get_hash
\* (DeleteMissing).
HashSupervisorCall(t) ==
    \/ \E path \in HashPaths : get_cached_hash_read_metadata(t, path)
    \/ get_cached_hash_lookup(t)
    \/ get_cached_hash_return(t)
    \/ \E paths \in SUBSET HashPaths : batch_get_hash_lookup(t, paths)
    \/ \E path \in HashPaths : batch_get_hash_path(t, path)
    \/ batch_get_hash_insert(t)

\* The worker threads call get_hash.
HashWorkerCall(t) ==
    \/ \E path \in HashPaths : get_hash_read_metadata(t, path)
    \/ get_hash_lookup(t)
    \/ get_hash_match(t)
    \/ get_hash_get_file_hash(t)
    \/ get_hash_insert(t)

HashNext ==
    \/ \E path \in HashPaths, file \in Sources : source_write(path, file)
    \/ \E path \in HashPaths : source_remove(path)
    \/ HashSupervisorCall(HashSupervisor)
    \/ \E t \in HashWorkers : HashWorkerCall(t)

HashSpec == Init /\ [][HashNext]_vars

----------------------------------------------------------------------------
\* batch_get_hash over two paths, with rows of earlier calls in the database

BatchPaths == {"a", "b"}

\* The source files of the batch: one size, modification times in two
\* different seconds.
BatchSources == [exists : {TRUE}, size : {1}, mtime : {0, TicksPerSecond}, content : Hashes]

\* The rows earlier calls of get_hash and batch_get_hash stored.
BatchRows == {InsertFileHash(ReadMetadata(f), f.content) : f \in BatchSources}

\* The state of Init with any source files and any rows for the two paths.
BatchInit ==
    /\ policy \in TranscodePolicy
    /\ queue = EmptyQueue
    /\ ready_counter = 0
    /\ queue_lock = Unlocked
    /\ sup_pc = "idle"
    /\ sup_policy = policy
    /\ sup_items = {}
    /\ ops = 0
    /\ pc = [w \in Workers |-> "wait_lock"]
    /\ job = [w \in Workers |-> NoJob]
    /\ popped = [w \in Workers |-> NoPop]
    /\ status_cache = [h \in Hashes |-> "none"]
    /\ status_ready = 0
    /\ status_failed = 0
    /\ inprogress_counter = 0
    /\ call = [t \in Callers |-> Idle]
    /\ files = EmptyDir
    /\ ready_entry = [h \in Hashes |-> NoEntry]
    /\ scan = ScanDone
    /\ hash_cache = [p \in Paths |-> "none"]
    /\ fd = [w \in Workers |-> "closed"]
    /\ sup_work = NoWork
    /\ source \in [BatchPaths -> {NoFile} \cup BatchSources]
    /\ hash_db \in [BatchPaths -> {NoRow} \cup BatchRows]
    /\ audio = NoAudio
    /\ out = NoOutput
    /\ NoGuards

BatchNext ==
    \/ \E paths \in SUBSET BatchPaths : batch_get_hash_lookup(HashSupervisor, paths)
    \/ \E path \in BatchPaths : batch_get_hash_path(HashSupervisor, path)
    \/ batch_get_hash_insert(HashSupervisor)

\* DeleteMissing's call of batch_get_hash.
BatchSpec == BatchInit /\ [][BatchNext]_vars

----------------------------------------------------------------------------
\* The worker loop with the region guard as a step of its own: entered() and
\* get_hash are two steps, so the guard is live while the hash is computed.

\* inprogress_counter.entered(): RegionCounterGuard::new adds one.
run_entered(w) ==
    /\ pc[w] = "get_hash"
    /\ inprogress_counter' = inprogress_counter + 1
    /\ pc' = [pc EXCEPT ![w] = "hashing"]
    /\ UNCHANGED <<queue_vars, sup_vars, job, popped, status_cache, status_ready,
                   status_failed, pool_vars>>

\* A worker whose hash error keeps the guard alive.
run_hash_leak(w) ==
    /\ pc[w] = "hashing"
    /\ \/ /\ hash_cache' = [hash_cache EXCEPT ![job[w]] = "valid"]
          /\ pc' = [pc EXCEPT ![w] = "check"]
          /\ UNCHANGED job
       \/ /\ pc' = [pc EXCEPT ![w] = "wait_lock"]
          /\ job' = [job EXCEPT ![w] = NoJob]
          /\ UNCHANGED hash_cache
    /\ UNCHANGED <<queue_vars, sup_vars, popped, status_vars, call, hash_vars, transcode_vars, lock_vars, ios_vars, dir_vars, fd, sup_work>>

\* A worker that sets the status to Failed when the hash cannot be computed.
run_hash_failed(w) ==
    /\ pc[w] = "hashing"
    /\ \/ /\ hash_cache' = [hash_cache EXCEPT ![job[w]] = "valid"]
          /\ pc' = [pc EXCEPT ![w] = "check"]
          /\ UNCHANGED <<job, status_vars>>
       \/ /\ insert(HashOf(job[w]), "Failed")
          /\ NextJob(w)
          /\ UNCHANGED hash_cache
    /\ UNCHANGED <<queue_vars, sup_vars, popped, call, hash_vars, transcode_vars, lock_vars, ios_vars, dir_vars, fd, sup_work>>

\* hash_cache.get_hash(&job) with the guard held: Ok stores a valid row,
\* Err is logged and `continue` drops the guard.
run_hash(w) ==
    /\ pc[w] = "hashing"
    /\ \/ /\ hash_cache' = [hash_cache EXCEPT ![job[w]] = "valid"]
          /\ pc' = [pc EXCEPT ![w] = "check"]
          /\ UNCHANGED <<job, inprogress_counter>>
       \/ /\ NextJob(w)
          /\ UNCHANGED hash_cache
    /\ UNCHANGED <<queue_vars, sup_vars, popped, status_cache, status_ready, status_failed,
                   call, hash_vars, transcode_vars, lock_vars, ios_vars, dir_vars, fd, sup_work>>

RegionSupervisor ==
    \/ /\ ops < MaxPoolOps
       /\ \/ \E items \in SUBSET PoolPaths : load_remove_missing(items)
          \/ \E p \in TranscodePolicy : pool_set_policy(p)
    \/ \E items \in SUBSET PoolPaths : pool_prioritize(items)
    \/ \E item \in Paths : load_filter(item)
    \/ load_extend

RegionWorker(w) ==
    \/ run_wait(w)
    \/ run_entered(w)
    \/ run_hash(w)
    \/ run_check(w)
    \/ run_transcode_create(w)
    \/ run_transcode_write(w)
    \/ run_transcode_error(w)
    \/ run_rename(w)
    \/ run_insert_ready(w)
    \/ run_insert_failed(w)

RegionNext ==
    \/ RegionSupervisor
    \/ \E w \in Workers : RegionWorker(w)

\* The workers of the pool under Load, Prioritize and SetPolicy.
RegionSpec == Init /\ [][RegionNext]_vars

----------------------------------------------------------------------------
\* The pool under fair scheduling

\* The path sets of the Loads of the liveness checks.
LoadItems == {{"a"}, {"a", "b"}}

\* The commands the supervisor task takes from its channel, finitely many,
\* and the rest of a Load it has begun.
LivePoolSupervisor ==
    \/ /\ ops < MaxLiveOps
       /\ \/ \E items \in LoadItems : load_remove_missing(items)
          \/ \E p \in TranscodePolicy : pool_set_policy(p)
          \/ pool_prioritize(PoolPaths)
    \/ \E item \in Paths : load_filter(item)
    \/ load_extend

LivePoolNext ==
    \/ LivePoolSupervisor
    \/ \E w \in Workers : PoolWorker(w)

\* A step of the rest of a Load or of a worker.
PoolContinue ==
    \/ \E item \in Paths : load_filter(item)
    \/ load_extend
    \/ \E w \in Workers : PoolWorker(w)

\* Fair scheduling: while a thread can take a step, some thread does;
\* get_hash and transcode return.  Every thread that can run does run is
\* more than this asks.  The supervisor need not receive another command.
PoolFairness == WF_vars(PoolContinue)

LivePoolSpec == Init /\ [][LivePoolNext]_vars /\ PoolFairness

----------------------------------------------------------------------------
\* transcode(): the frame counts, the headers and the audio packets of the
\* output, for one job a worker has popped and hashed

\* The rate of the encoder and of the resampler's output.
OutputRate == 48000

\* "number of frames per chunk (48khz / 1000 * 20ms = 960 frames)"
chunk_frames == (48000 \div 1000) * 20

\* The sources have at most MaxFrames sample-frames per channel.
MaxFrames == 2000

SampleRates == {44100, 48000, 96000}
ChannelCounts == {1, 2, 3}

\* encoder.get_lookahead(): 312 frames for the 48 kHz encoder of the audio
\* application, and an encoder without lookahead.
Lookaheads == {0, 312}

\* The decoded sources.
Audio ==
    [sample_rate : SampleRates, channel_count : ChannelCounts,
     original_frames : 0 .. MaxFrames, lookahead_frames : Lookaheads]

\* The picture of the source's metadata: none, one the image library
\* decodes and encodes, one it fails on.
Visuals == {"none", "image", "corrupt"}

\* The comments made from the standard tags of the source.
StandardTags == {"TITLE", "ALBUM", "TRACKNUMBER", "ARTIST"}
Picture == "METADATA_BLOCK_PICTURE"

\* The worker of the job.
Transcoding == "w1"

\* preskip_bytes[0], preskip_bytes[1] of lookahead_frames.to_le_bytes()
PreSkip(lookahead_frames) == lookahead_frames % 65536

\* A resampler whose output is not padded for the encoder's lookahead.
ResampledFramesUnpadded(a) ==
    IF a.sample_rate # OutputRate
    THEN (a.original_frames * OutputRate) \div a.sample_rate
    ELSE a.lookahead_frames + a.original_frames

\* A resampler that rounds the number of resampled frames up.
ResampledFramesCeil(a) ==
    IF a.sample_rate # OutputRate
    THEN (a.original_frames * OutputRate + a.sample_rate - 1) \div a.sample_rate
         + a.lookahead_frames
    ELSE a.lookahead_frames + a.original_frames

\* resampled_samples[0].len(): new_frames after drain(0..delay) and
\* truncate(new_frames) when the source is resampled, the zero pad and the
\* source otherwise.
ResampledFrames(a) ==
    IF a.sample_rate # OutputRate
    THEN (a.original_frames * OutputRate) \div a.sample_rate + a.lookahead_frames
    ELSE a.lookahead_frames + a.original_frames

OpusHead(a) ==
    [kind |-> "OpusHead", channel_count |-> a.channel_count,
     pre_skip |-> PreSkip(a.lookahead_frames), rate |-> OutputRate,
     end_info |-> "EndPage", granule_position |-> 0]

OpusTags(comments) ==
    [kind |-> "OpusTags", comments |-> comments,
     end_info |-> "EndPage", granule_position |-> 0]

AudioPacket(end_info, granule_position) ==
    [kind |-> "audio", end_info |-> end_info, granule_position |-> granule_position]

\* A worker is about to call transcode(&job, &temp_path) for the one path of
\* a Load under Always, whose hash it has computed.
TranscodeInit ==
    /\ policy = Always
    /\ queue = EmptyQueue
    /\ ready_counter = 0
    /\ queue_lock = Unlocked
    /\ sup_pc = "idle"
    /\ sup_policy = policy
    /\ sup_items = {}
    /\ ops = 1
    /\ pc = [w \in Workers |-> IF w = Transcoding THEN "transcode" ELSE "wait_lock"]
    /\ job = [w \in Workers |-> IF w = Transcoding THEN "a" ELSE NoJob]
    /\ popped = [w \in Workers |-> NoPop]
    /\ status_cache = [h \in Hashes |-> "none"]
    /\ status_ready = 0
    /\ status_failed = 0
    /\ inprogress_counter = 1
    /\ call = [t \in Callers |-> Idle]
    /\ files = EmptyDir
    /\ ready_entry = [h \in Hashes |-> NoEntry]
    /\ scan = ScanDone
    /\ hash_cache = [p \in Paths |-> IF p = "a" THEN "valid" ELSE "none"]
    /\ fd = [w \in Workers |-> "closed"]
    /\ sup_work = NoWork
    /\ source = [p \in HashPaths |-> NoFile]
    /\ hash_db = [p \in HashPaths |-> NoRow]
    /\ audio \in Audio
    /\ out = NoOutput
    /\ NoGuards

\* What the steps of transcode() that touch no file leave alone.
TranscodeUnchanged ==
    UNCHANGED <<queue_vars, sup_vars, job, popped, status_vars, call, hash_vars, dir_vars,
                hash_cache, fd, sup_work, audio, lock_vars, ios_vars>>

\* transcode() returns Err(e): the worker logs it and tries to remove the
\* temp file, created or not.
TranscodeError(w) ==
    /\ files' = RemoveFile(files, TempPath(HashOf(job[w])))
    /\ fd' = [FdAfterRemove(HashOf(job[w]), "tmp") EXCEPT ![w] = "closed"]
    /\ pc' = [pc EXCEPT ![w] = "insert_failed"]

\* A transcoder that looks at the channel count only when it interleaves,
\* after File::create: every count gets as far as the output file.
transcode_interleave_unchecked(w) ==
    /\ pc[w] = "transcode"
    /\ out' = [interleaved_len |-> ResampledFrames(audio) * audio.channel_count,
               pos |-> 0, packets |-> << >>, visual |-> "none", result |-> "running"]
    /\ pc' = [pc EXCEPT ![w] = "create"]
    /\ TranscodeUnchanged

\* The source is decoded, the encoder is made (a channel count other than 1
\* and 2 is an error, returned before File::create), the samples are
\* resampled or padded, and interleaved.
transcode_interleave(w) ==
    /\ pc[w] = "transcode"
    /\ IF audio.channel_count \in {1, 2}
       THEN /\ out' = [interleaved_len |-> ResampledFrames(audio) * audio.channel_count,
                       pos |-> 0, packets |-> << >>, visual |-> "none", result |-> "running"]
            /\ pc' = [pc EXCEPT ![w] = "create"]
            /\ UNCHANGED <<files, fd>>
       ELSE /\ out' = [interleaved_len |-> 0, pos |-> 0, packets |-> << >>,
                       visual |-> "none", result |-> "err"]
            /\ TranscodeError(w)
    /\ UNCHANGED <<queue_vars, sup_vars, job, popped, status_vars, call, hash_vars, lock_vars, ios_vars,
                   ready_entry,
                   scan, hash_cache, sup_work, audio>>

\* File::create(output_path)
transcode_create(w) ==
    /\ pc[w] = "create"
    /\ files' = CreateFile(files, TempPath(HashOf(job[w])))
    /\ fd' = [fd EXCEPT ![w] = "tmp"]
    /\ pc' = [pc EXCEPT ![w] = "tags"]
    /\ UNCHANGED <<queue_vars, sup_vars, job, popped, status_vars, call, hash_vars, ready_entry,
                   scan, hash_cache, sup_work, transcode_vars, lock_vars, ios_vars>>

\* The user comments: one per standard tag, and METADATA_BLOCK_PICTURE for
\* the best visual, whose decode and encode errors are returned with `?`;
\* then the OpusHead and OpusTags packets are written.
transcode_tags(w) ==
    /\ pc[w] = "tags"
    /\ \E visual \in Visuals :
          IF visual = "corrupt"
          THEN /\ out' = [out EXCEPT !.visual = visual, !.result = "err"]
               /\ TranscodeError(w)
          ELSE /\ out' = [out EXCEPT !.visual = visual,
                                     !.packets = <<OpusHead(audio),
                                                   OpusTags(IF visual = "image"
                                                            THEN StandardTags \cup {Picture}
                                                            ELSE StandardTags)>>]
               /\ pc' = [pc EXCEPT ![w] = "encode"]
               /\ UNCHANGED <<files, fd>>
    /\ UNCHANGED <<queue_vars, sup_vars, job, popped, status_vars, call, hash_vars, lock_vars, ios_vars,
                   ready_entry,
                   scan, hash_cache, sup_work, audio>>

\* let chunk_samples = chunk_frames * channel_count;
chunk_samples == chunk_frames * audio.channel_count

\* An encoder loop that numbers its packets in samples.
transcode_encode_chunk_samples(w) ==
    /\ pc[w] = "encode"
    /\ out.pos + chunk_samples <= out.interleaved_len
    /\ out' = [out EXCEPT
                 !.packets = Append(@, AudioPacket(
                     IF out.pos + chunk_samples = out.interleaved_len
                     THEN "EndStream" ELSE "NormalPacket",
                     out.pos + chunk_samples)),
                 !.pos = @ + chunk_samples]
    /\ UNCHANGED pc
    /\ TranscodeUnchanged

\* "encode in chunks": one turn of the loop over the full chunks.
transcode_encode_chunk(w) ==
    /\ pc[w] = "encode"
    /\ out.pos + chunk_samples <= out.interleaved_len
    /\ out' = [out EXCEPT
                 !.packets = Append(@, AudioPacket(
                     IF out.pos + chunk_samples = out.interleaved_len
                     THEN "EndStream" ELSE "NormalPacket",
                     (out.pos + chunk_samples) \div audio.channel_count)),
                 !.pos = @ + chunk_samples]
    /\ UNCHANGED pc
    /\ TranscodeUnchanged

\* A transcoder whose final packet counts the frames of the padded chunk.
transcode_encode_final_padded(w) ==
    /\ pc[w] = "encode"
    /\ out.pos + chunk_samples > out.interleaved_len
    /\ out' = [out EXCEPT
                 !.packets = IF out.pos < out.interleaved_len
                             THEN Append(@, AudioPacket("EndStream",
                                     (out.pos + chunk_samples) \div audio.channel_count))
                             ELSE @,
                 !.result = "ok"]
    /\ files' = IF fd[w] \in {"tmp", "ogg"} THEN WriteFile(files, OpenPath(w), 1) ELSE files
    /\ fd' = [fd EXCEPT ![w] = "closed"]
    /\ pc' = [pc EXCEPT ![w] = "rename"]
    /\ UNCHANGED <<queue_vars, sup_vars, job, popped, status_vars, call, hash_vars, lock_vars, ios_vars,
                   ready_entry,
                   scan, hash_cache, sup_work, audio>>

\* The loop breaks; "encode final chunk with remaining samples", zero-padded,
\* with the number of input frames as its granule position; Ok(file_size).
transcode_encode_final(w) ==
    /\ pc[w] = "encode"
    /\ out.pos + chunk_samples > out.interleaved_len
    /\ out' = [out EXCEPT
                 !.packets = IF out.pos < out.interleaved_len
                             THEN Append(@, AudioPacket("EndStream",
                                     out.interleaved_len \div audio.channel_count))
                             ELSE @,
                 !.result = "ok"]
    /\ files' = IF fd[w] \in {"tmp", "ogg"} THEN WriteFile(files, OpenPath(w), 1) ELSE files
    /\ fd' = [fd EXCEPT ![w] = "closed"]
    /\ pc' = [pc EXCEPT ![w] = "rename"]
    /\ UNCHANGED <<queue_vars, sup_vars, job, popped, status_vars, call, hash_vars, lock_vars, ios_vars,
                   ready_entry,
                   scan, hash_cache, sup_work, audio>>

TranscodeNext ==
    \E w \in Workers :
        \/ transcode_interleave(w)
        \/ transcode_create(w)
        \/ transcode_tags(w)
        \/ transcode_encode_chunk(w)
        \/ transcode_encode_final(w)
        \/ run_rename(w)
        \/ run_insert_ready(w)
        \/ run_insert_failed(w)

\* One call of transcode() and what the worker does with its result.
TranscodeSpec == TranscodeInit /\ [][TranscodeNext]_vars

----------------------------------------------------------------------------
\* The TranscodeQueue at the grain of its two mutexes: each caller thread is
\* inside one of set_policy, extend, prioritize, remove_missing and wait, and
\* every lock() is a step that waits until the mutex is free.

\* Number of operations the callers begin.
MaxLockOps == 3

LockItems == {"a"}
QueueOps == {"set_policy", "extend", "prioritize", "remove_missing", "wait"}

\* A caller begins an operation: wait first locks the queue mutex, the others
\* the policy mutex.
lock_call(t, op, new_policy, items) ==
    /\ ops < MaxLockOps
    /\ CanCall(t)
    /\ call' = [call EXCEPT ![t] =
                  [op |-> op, pc |-> IF op = "wait" THEN "queue_lock" ELSE "policy_lock",
                   new_policy |-> IF op = "set_policy" THEN new_policy ELSE IfRequested,
                   items |-> IF op \in {"set_policy", "wait"} THEN {} ELSE items,
                   policy |-> IfRequested]]
    /\ ops' = ops + 1
    /\ UNCHANGED <<queue_vars, sup_pc, sup_policy, sup_items, worker_vars, status_vars,
                   dir_vars, run_vars, hash_vars, transcode_vars, lock_vars, ios_vars>>

LockUnchanged ==
    UNCHANGED <<sup_vars, worker_vars, status_vars, dir_vars, run_vars, hash_vars,
                transcode_vars, ios_vars>>

\* self.policy.lock(): at the head of an operation, or inside the closure of
\* pop_if with the queue mutex held.
lock_policy(t) ==
    /\ call[t].op \in QueueOps
    /\ call[t].pc \in {"policy_lock", "pop_if"}
    /\ call[t].pc = "pop_if" => queue # EmptyQueue
    /\ policy_lock = Unlocked
    /\ policy_lock' = t
    /\ call' = [call EXCEPT ![t].pc =
                  IF call[t].pc = "pop_if" THEN "pop_if_held" ELSE "policy_held"]
    /\ UNCHANGED <<policy, queue, ready_counter, queue_lock>>
    /\ LockUnchanged

\* An operation that goes on to lock the queue with its policy guard alive.
unlock_policy_late(t) ==
    /\ call[t].op \in QueueOps
    /\ call[t].pc = "policy_held"
    /\ policy' = IF call[t].op = "set_policy" THEN call[t].new_policy ELSE policy
    /\ call' = [call EXCEPT ![t].pc = "queue_lock",
                            ![t].policy = IF call[t].op = "set_policy"
                                          THEN call[t].new_policy ELSE policy]
    /\ UNCHANGED <<policy_lock, queue, ready_counter, queue_lock>>
    /\ LockUnchanged

\* The block that holds the policy guard: set_policy writes the policy, the
\* others copy it; the guard is dropped at the end of the block.
unlock_policy(t) ==
    /\ call[t].op \in QueueOps
    /\ call[t].pc = "policy_held"
    /\ policy' = IF call[t].op = "set_policy" THEN call[t].new_policy ELSE policy
    /\ policy_lock' = Unlocked
    /\ call' = [call EXCEPT ![t].pc = "queue_lock",
                            ![t].policy = IF call[t].op = "set_policy"
                                          THEN call[t].new_policy ELSE policy]
    /\ UNCHANGED <<queue, ready_counter, queue_lock>>
    /\ LockUnchanged

\* self.queue.lock(), and the re-lock when Condvar::wait returns.
lock_queue(t) ==
    /\ call[t].op \in QueueOps
    /\ call[t].pc = "queue_lock"
    /\ queue_lock = Unlocked
    /\ queue_lock' = t
    /\ call' = [call EXCEPT ![t].pc = IF call[t].op = "wait" THEN "pop_if" ELSE "queue_held"]
    /\ UNCHANGED <<policy, queue, ready_counter, policy_lock>>
    /\ LockUnchanged

\* The block that holds the queue guard: the change of the queue and the
\* recount under the policy the operation read.
unlock_queue(t) ==
    /\ call[t].op \in QueueOps
    /\ call[t].pc = "queue_held"
    /\ LET op == call[t].op
           q == IF op = "extend" THEN ExtendQueue(queue, call[t].items)
                ELSE IF op = "prioritize" THEN IncreasePriority(queue, call[t].items)
                ELSE IF op = "remove_missing" THEN Retain(queue, call[t].items)
                ELSE queue
       IN  /\ queue' = q
           /\ ready_counter' = ReadyCount(call[t].policy, q)
           /\ call' = [call EXCEPT ![t] =
                         IF op = "remove_missing" THEN [op |-> "returned", path |-> NoJob]
                         ELSE [@ EXCEPT !.pc = "notify"]]
    /\ queue_lock' = Unlocked
    /\ policy_lock' = IF policy_lock = t THEN Unlocked ELSE policy_lock
    /\ UNCHANGED policy
    /\ LockUnchanged

\* self.ready.notify_all()
lock_notify(t) ==
    /\ call[t].op \in QueueOps
    /\ call[t].pc = "notify"
    /\ call' = [u \in Callers |->
                  IF u = t THEN [op |-> "returned", path |-> NoJob]
                  ELSE IF call[u].op = "wait" /\ call[u].pc = "asleep"
                  THEN [call[u] EXCEPT !.pc = "queue_lock"]
                  ELSE call[u]]
    /\ UNCHANGED <<queue_vars, lock_vars>>
    /\ LockUnchanged

\* pop_if on an empty queue never calls the closure: self.ready.wait(queue)
\* gives up the queue mutex.
lock_sleep(t) ==
    /\ call[t].op = "wait"
    /\ call[t].pc = "pop_if"
    /\ queue = EmptyQueue
    /\ queue_lock' = Unlocked
    /\ call' = [call EXCEPT ![t].pc = "asleep"]
    /\ UNCHANGED <<policy, queue, ready_counter, policy_lock>>
    /\ LockUnchanged

\* The closure of pop_if with both guards held, and what wait does with the
\* answer: Some is counted off and returned, None goes to sleep on `ready`.
lock_pop_if(t) ==
    /\ call[t].op = "wait"
    /\ call[t].pc = "pop_if_held"
    /\ policy_lock' = Unlocked
    /\ queue_lock' = Unlocked
    /\ \E item \in PeekMax(queue) :
          IF Admit(policy, queue[item])
          THEN /\ queue' = Remove(queue, item)
               /\ ready_counter' = ready_counter - 1
               /\ call' = [call EXCEPT ![t] = [op |-> "returned", path |-> item]]
          ELSE /\ call' = [call EXCEPT ![t].pc = "asleep"]
               /\ UNCHANGED <<queue, ready_counter>>
    /\ UNCHANGED policy
    /\ LockUnchanged

LockContinue ==
    \E t \in Callers :
        \/ lock_policy(t)
        \/ unlock_policy(t)
        \/ lock_queue(t)
        \/ unlock_queue(t)
        \/ lock_notify(t)
        \/ lock_sleep(t)
        \/ lock_pop_if(t)

LockNext ==
    \/ \E t \in Callers, op \in QueueOps, new_policy \in TranscodePolicy, items \in SUBSET LockItems :
          lock_call(t, op, new_policy, items)
    \/ LockContinue

LockSpec == Init /\ [][LockNext]_vars

----------------------------------------------------------------------------
\* fs::ios: the access counts of the security-scoped urls and the guards

\* Number of guards created, cloned or dropped.
MaxGuardOps == 5

\* usize::MAX, as far as the model's integers go.
UsizeMax == 2147483647

\* URL_ACCESS_COUNTS.entry(url).or_insert(v): the count of the url, or v when
\* the map has no entry for it.
OrInsert(counts, url, v) == IF url \in DOMAIN counts THEN counts[url] ELSE v

SetCount(counts, url, v) ==
    [u \in DOMAIN counts \cup {url} |-> IF u = url THEN v ELSE counts[u]]

\* URL_ACCESS_COUNTS.remove(url)
RemoveCount(counts, url) == [u \in DOMAIN counts \ {url} |-> counts[u]]

\* CFURLStartAccessingSecurityScopedResource / ..Stop..: the system counts the
\* calls to start that no call to stop has balanced.
StartResource(res, url) ==
    [res EXCEPT ![url] = [accessing |-> @.accessing + 1, last |-> "start"]]
StopResource(res, url) ==
    [res EXCEPT ![url] = [accessing |-> @.accessing - 1, last |-> "stop"]]

\* start_accessing_url: the entry is locked from or_insert to the end of the
\* function, so the increment and the start of the first user are one step.
start_accessing_url(url) ==
    LET count == OrInsert(url_access_counts, url, 0) + 1
    IN  /\ url_access_counts' = SetCount(url_access_counts, url, count)
        /\ resource' = IF count = 1 THEN StartResource(resource, url) ELSE resource

UrlUnchanged ==
    UNCHANGED <<queue_vars, sup_pc, sup_policy, sup_items, worker_vars, status_vars,
                dir_vars, run_vars, hash_vars, transcode_vars, lock_vars>>

\* IosUrlAccessGuard::new(url)
guard_new(t, url) ==
    /\ ops < MaxGuardOps
    /\ CanCall(t)
    /\ start_accessing_url(url)
    /\ guards' = [guards EXCEPT ![url] = @ + 1]
    /\ ops' = ops + 1
    /\ UNCHANGED call
    /\ UrlUnchanged

\* IosUrlAccessGuard::clone of a guard that is alive
guard_clone(t, url) ==
    /\ ops < MaxGuardOps
    /\ CanCall(t)
    /\ guards[url] > 0
    /\ start_accessing_url(url)
    /\ guards' = [guards EXCEPT ![url] = @ + 1]
    /\ ops' = ops + 1
    /\ UNCHANGED call
    /\ UrlUnchanged

\* Drop of a guard, stop_accessing_url up to `if *count == 0`: the entry is
\* locked while the count is decreased; a count that reaches 0 stays in the
\* map when the lock is dropped.  A count of 0 cannot be decreased: the
\* subtraction panics with overflow checks and wraps without them.
guard_drop(t, url) ==
    /\ ops < MaxGuardOps
    /\ CanCall(t)
    /\ guards[url] > 0
    /\ guards' = [guards EXCEPT ![url] = @ - 1]
    /\ ops' = ops + 1
    /\ LET count == OrInsert(url_access_counts, url, 1)
       IN  IF count = 0
           THEN \/ /\ call' = [call EXCEPT ![t] = [op |-> "panicked"]]
                   /\ UNCHANGED url_access_counts
                \/ /\ url_access_counts' = SetCount(url_access_counts, url, UsizeMax)
                   /\ UNCHANGED call
           ELSE /\ url_access_counts' = SetCount(url_access_counts, url, count - 1)
                /\ call' = IF count = 1
                           THEN [call EXCEPT ![t] =
                                   [op |-> "stop_accessing_url", pc |-> "remove", url |-> url]]
                           ELSE call
    /\ UNCHANGED resource
    /\ UrlUnchanged

\* URL_ACCESS_COUNTS.remove(url), after drop(count) gave the entry up
stop_remove(t) ==
    /\ call[t].op = "stop_accessing_url"
    /\ call[t].pc = "remove"
    /\ url_access_counts' = RemoveCount(url_access_counts, call[t].url)
    /\ call' = [call EXCEPT ![t].pc = "stop"]
    /\ UNCHANGED <<resource, guards, ops>>
    /\ UrlUnchanged

\* stop_accessing_security_scoped_resource(url)
stop_resource(t) ==
    /\ call[t].op = "stop_accessing_url"
    /\ call[t].pc = "stop"
    /\ resource' = StopResource(resource, call[t].url)
    /\ call' = [call EXCEPT ![t] = Idle]
    /\ UNCHANGED <<url_access_counts, guards, ops>>
    /\ UrlUnchanged

UrlNext ==
    \E t \in Callers :
        \/ \E url \in Urls : guard_new(t, url)
        \/ \E url \in Urls : guard_clone(t, url)
        \/ \E url \in Urls : guard_drop(t, url)
        \/ stop_remove(t)
        \/ stop_resource(t)

UrlSpec == Init /\ [][UrlNext]_vars

----------------------------------------------------------------------------
\* Properties of the queue

\* No queue operation is in progress: the supervisor is between operations
\* and no worker is inside the locked part of wait().
Quiescent ==
    /\ sup_pc = "idle"
    /\ queue_lock = Unlocked

\* C1: whenever no queue operation is in progress, ready_counter is the
\* number of resident entries the current policy admits.
C1_ReadyCounterExact ==
    Quiescent => ready_counter = Cardinality({p \in DOMAIN queue :
                     (policy = IfRequested => queue[p] > 0)})

\* A worker has popped an admitted entry and returned while the supervisor
\* is idle and entries of both kinds are still resident.
C1_Witness ==
    /\ Quiescent
    /\ policy = IfRequested
    /\ ready_counter = 1
    /\ \E w \in Workers : pc[w] = "get_hash"
    /\ \E p \in DOMAIN queue : queue[p] = 0

\* C2: ready_counter is never decremented at 0, so it never holds 2^64 - 1
\* (the value written -1 here).
C2_ReadyCounterNeverWraps ==
    ready_counter >= 0

\* C3: an entry popped while the policy is IfRequested had priority > 0.
C3_PopUnderIfRequested ==
    \A w \in Workers :
        (pc[w] = "fetch_sub" /\ popped[w].policy = IfRequested)
            => popped[w].priority > 0

\* A pop under IfRequested, taken while a priority-0 entry was resident too.
C3_Witness ==
    \E w \in Workers :
        /\ pc[w] = "fetch_sub"
        /\ popped[w].policy = IfRequested
        /\ \E p \in DOMAIN queue : queue[p] = 0

\* The step in which wait() returns to worker w.
WaitReturns(w) ==
    pc[w] = "fetch_sub" /\ pc'[w] = "get_hash"

\* C4: the entry wait() hands out was resident, is admitted by the policy
\* read at the pop, has the greatest priority of the entries resident then,
\* and is not resident when wait() returns.
C4_PopsAdmittedMaximum ==
    /\ [](\A w \in Workers : pc[w] = "fetch_sub" =>
            /\ job[w] \in DOMAIN popped[w].queue
            /\ popped[w].priority = popped[w].queue[job[w]]
            /\ (popped[w].policy = IfRequested => popped[w].priority > 0)
            /\ \A p \in DOMAIN popped[w].queue :
                   popped[w].queue[p] <= popped[w].priority
            /\ job[w] \notin DOMAIN queue)
    /\ [][\A w \in Workers : WaitReturns(w) => job'[w] \notin DOMAIN queue']_vars

\* A pop that had to choose: entries of lower priority were resident.
C4_Witness ==
    \E w \in Workers :
        /\ pc[w] = "get_hash"
        /\ job[w] \notin DOMAIN queue
        /\ Cardinality(DOMAIN queue) = 2
        /\ \E p \in DOMAIN queue : queue[p] = 1
        /\ \E p \in DOMAIN queue : queue[p] = 0

\* The step in which extend changes the queue.
ExtendStep ==
    sup_pc = "extend_push" /\ sup_pc' = "extend_notify"

\* C5: extend adds each absent path once at priority 0, keeps every resident
\* entry and its priority, and extending again by the same paths changes
\* nothing.
C5_ExtendIdempotent ==
    [][ExtendStep =>
        /\ DOMAIN queue' = DOMAIN queue \cup sup_items
        /\ \A p \in DOMAIN queue : queue'[p] = queue[p]
        /\ \A p \in sup_items \ DOMAIN queue : queue'[p] = 0
        /\ ExtendQueue(queue', sup_items) = queue']_vars

\* extend has run over a path that prioritize had raised before, and over an
\* absent one.
C5_Witness ==
    /\ sup_pc = "extend_notify"
    /\ ops = 3
    /\ \E p \in sup_items : p \in DOMAIN queue /\ queue[p] = 1
    /\ \E p \in sup_items : p \in DOMAIN queue /\ queue[p] = 0

\* The step in which remove_missing changes the queue.
RemoveMissingStep ==
    sup_pc = "remove_missing_retain" /\ sup_pc' = "remove_missing_return"

\* C6: remove_missing(S) keeps exactly the resident entries with a path in
\* S, with their priorities, adds none and leaves the policy alone.
C6_RemoveMissingExact ==
    [][RemoveMissingStep =>
        /\ DOMAIN queue' = {p \in DOMAIN queue : p \in sup_items}
        /\ \A p \in DOMAIN queue' : queue'[p] = queue[p]
        /\ policy' = policy]_vars

\* remove_missing({"b", "c"}) has run on a queue that held a raised "b" and
\* nothing else of its set; no worker can have popped in between.
C6_Witness ==
    /\ sup_pc = "remove_missing_return"
    /\ sup_items = {"b", "c"}
    /\ DOMAIN queue = {"b"}
    /\ queue["b"] = 1
    /\ ops = 3

\* The step in which prioritize changes the queue.
PrioritizeStep ==
    sup_pc = "prioritize_increase" /\ sup_pc' = "prioritize_notify"

\* C7: prioritize(S) adds 1 to the priority of each resident entry with a
\* path in S, leaves the others alone and neither adds nor removes an entry.
C7_PrioritizeExact ==
    [][PrioritizeStep =>
        /\ DOMAIN queue' = DOMAIN queue
        /\ \A p \in DOMAIN queue :
               queue'[p] = IF p \in sup_items THEN queue[p] + 1 ELSE queue[p]]_vars

\* prioritize has run with a resident path, a path that is not resident, and
\* a resident path outside its set.
C7_Witness ==
    /\ sup_pc = "prioritize_notify"
    /\ \E p \in sup_items : p \in DOMAIN queue /\ queue[p] = 2
    /\ \E p \in sup_items : p \notin DOMAIN queue
    /\ \E p \in DOMAIN queue \ sup_items : queue[p] = 0

\* The step in which pop_if hands an entry to worker w.
PopStep(w) ==
    pc[w] = "pop_if" /\ pc'[w] = "fetch_sub"

\* Every resident entry has priority 0.
OnlyUnrequested ==
    \A p \in DOMAIN queue : queue[p] = 0

\* a, b and c are resident at priority 0.
E2_Loaded ==
    DOMAIN queue = {"a", "b", "c"} /\ OnlyUnrequested

\* a, b and c are resident, b at priority 1 and the others at 0.
E2_Requested ==
    /\ DOMAIN queue = {"a", "b", "c"}
    /\ queue["a"] = 0 /\ queue["b"] = 1 /\ queue["c"] = 0

\* C8: under IfRequested with a, b, c at priority 0 the counter is 0 and no
\* wait() pops; prioritize({b}) leaves b at 1 and the counter at 1; the pop
\* that follows yields b and leaves a and c; with only priority-0 entries
\* left no other wait() pops; and b is popped eventually unless the
\* supervisor removes it.
C8_IfRequestedGating ==
    /\ []((Quiescent /\ policy = IfRequested /\ E2_Loaded) => ready_counter = 0)
    /\ [][(policy = IfRequested /\ OnlyUnrequested)
            => \A w \in Workers : ~PopStep(w)]_vars
    /\ [][(PrioritizeStep /\ sup_items = {"b"} /\ policy = IfRequested /\ E2_Loaded)
            => (E2_Requested' /\ ready_counter' = 1)]_vars
    /\ [][(policy = IfRequested /\ E2_Requested)
            => \A w \in Workers : PopStep(w) =>
                  /\ job'[w] = "b"
                  /\ DOMAIN queue' = {"a", "c"}
                  /\ queue'["a"] = 0 /\ queue'["c"] = 0]_vars
    /\ [](\A w \in Workers :
            (pc[w] = "get_hash" /\ job[w] = "b" /\ Quiescent /\ policy = IfRequested
             /\ DOMAIN queue = {"a", "c"} /\ OnlyUnrequested) => ready_counter = 0)
    /\ ((policy = IfRequested /\ E2_Requested) ~> ("b" \notin DOMAIN queue))

\* One worker has come back from wait() with b, a and c are still resident
\* and the other worker sleeps on the condvar.
C8_Witness ==
    /\ policy = IfRequested
    /\ Quiescent
    /\ DOMAIN queue = {"a", "c"} /\ OnlyUnrequested
    /\ ready_counter = 0
    /\ \E w \in Workers :
          /\ pc[w] = "get_hash" /\ job[w] = "b"
          /\ \A o \in Workers \ {w} : pc[o] = "asleep"

\* The steps of set_policy.
SetPolicyStep ==
    \/ sup_pc = "idle" /\ sup_pc' = "set_policy_recount"
    \/ sup_pc = "set_policy_recount" /\ sup_pc' = "set_policy_notify"
    \/ sup_pc = "set_policy_notify" /\ sup_pc' = "idle"

\* Worker w has an entry in hand and works on it.
InFlight(w) == pc[w] \in {"get_hash", "transcode", "rename"}

\* The step in which worker w ends its iteration.
JobEnds(w) == InFlight(w) /\ pc'[w] = "wait_lock"

\* What C9 holds in common with its amended form: once set_policy(IfRequested)
\* has recounted a queue of priority-0 entries the counter is 0 (no wait()
\* being between its pop and its return); set_policy leaves the entries and
\* their priorities alone; a wait() pops only if the policy is Always or some
\* entry has priority > 0; a job in flight comes to its end.
C9_Flip ==
    /\ []((sup_pc \in {"set_policy_notify", "idle"} /\ policy = IfRequested
           /\ OnlyUnrequested /\ \A w \in Workers : pc[w] # "fetch_sub")
           => ready_counter = 0)
    /\ [][SetPolicyStep => queue' = queue]_vars
    /\ [][\A w \in Workers : PopStep(w) =>
            (policy = Always \/ \E p \in DOMAIN queue : queue[p] > 0)]_vars
    /\ \A w \in Workers : InFlight(w) ~> (pc[w] = "wait_lock")

\* C9 as claimed: the flip leaves the counter at 0, the entries untouched and
\* the waiters blocked, and every job that ends under IfRequested has
\* published Ready or Failed for its hash.
C9_FlipMidFlight_Claimed ==
    /\ C9_Flip
    /\ [][\A w \in Workers : (JobEnds(w) /\ policy = IfRequested) =>
            status_cache'[HashOf(job[w])] \in {"Ready", "Failed"}]_vars

\* C9 amended: the flip leaves the counter at 0, the entries untouched and
\* the waiters blocked, and every job that ends under IfRequested after its
\* hash was computed and not found Ready has published Ready or Failed for
\* its hash; a job that ends at get_hash publishes nothing.
C9_FlipMidFlight ==
    /\ C9_Flip
    /\ [][\A w \in Workers : (JobEnds(w) /\ policy = IfRequested) =>
            IF pc[w] = "get_hash"
            THEN status_cache' = status_cache
            ELSE status_cache'[HashOf(job[w])] \in {"Ready", "Failed"}]_vars

\* set_policy(IfRequested) has just recounted while a job is in flight.  Two
\* operations were issued, an extend and this set_policy, so the job was
\* popped at priority 0, that is under Always: the policy flipped in flight.
\* Priority-0 entries are still resident and the counter is 0.
C9_Witness ==
    /\ sup_pc = "set_policy_notify"
    /\ policy = IfRequested
    /\ ops = 2
    /\ DOMAIN queue # {} /\ OnlyUnrequested
    /\ ready_counter = 0
    /\ \E w \in Workers : InFlight(w)

\* A worker is inside wait() without an entry in hand.
Blocked(w) == pc[w] \in {"wait_lock", "pop_if", "no_job", "asleep"}

\* Some resident entry is admitted by the current policy.
AdmissibleResident ==
    \E p \in DOMAIN queue : policy = IfRequested => queue[p] > 0

\* C10: when a worker is blocked in wait() and an admissible entry is
\* resident, some wait() pops an entry, unless the supervisor withdraws the
\* entry or its admission first.
C10_NoLostWakeup ==
    ((\E w \in Workers : Blocked(w)) /\ AdmissibleResident)
        ~> ((\E w \in Workers : pc[w] = "fetch_sub") \/ ~AdmissibleResident)

\* set_policy(Always) has stored the policy after a waiter's check failed and
\* before the waiter went to sleep; a priority-0 entry is resident.
C10_Witness ==
    /\ sup_pc = "set_policy_recount"
    /\ policy = Always
    /\ \E w \in Workers : pc[w] = "no_job"
    /\ \E p \in DOMAIN queue : queue[p] = 0

\* wait() of worker w has just popped path p.
Pops(w, p) == pc[w] = "fetch_sub" /\ job[w] = p

\* Path p is resident and the current policy admits it.
Admitted(p) == p \in DOMAIN queue /\ Admit(policy, queue[p])

\* C11: every resident entry the policy admits is eventually popped by some
\* wait(): an admitted entry stops being one only when a wait() pops it, when
\* remove_missing takes it out or when set_policy stores a policy that does
\* not admit it, and once the supervisor has issued its last operation (so
\* that no higher-priority entries keep arriving) no admitted entry stays
\* resident for ever.
C11_NoStarvation ==
    /\ [][\A p \in Paths : (Admitted(p) /\ ~Admitted(p)') =>
            \/ \E w \in Workers : Pops(w, p)'
            \/ sup_pc = "remove_missing_retain" /\ p \notin sup_items
            \/ sup_pc = "idle" /\ sup_pc' = "set_policy_recount"]_vars
    /\ <>[](\A p \in Paths : ~Admitted(p))

\* One extend under Always enqueued a, b and c at priority 0; one worker is
\* at work on one of them and the other worker has just popped a second one.
C11_Witness ==
    /\ policy = Always
    /\ ops = 1
    /\ Cardinality(DOMAIN queue) = 1
    /\ \E w \in Workers, v \in Workers :
          /\ InFlight(w)
          /\ \E p \in Paths : Pops(v, p) /\ p # job[w]

----------------------------------------------------------------------------
\* Properties of the status cache

\* No insert and no retain is executing.
CacheQuiescent == \A t \in Callers : call[t] = Idle

\* C12: whenever no insert and no retain is executing, the ready counter is
\* the number of Ready entries of the map and the failed counter the number
\* of Failed entries, so that their sum is the size of the map.
C12_StatusCountersExact ==
    CacheQuiescent =>
        /\ status_ready = CountOf(status_cache, "Ready")
        /\ status_failed = CountOf(status_cache, "Failed")
        /\ status_ready + status_failed =
               Cardinality({h \in Hashes : status_cache[h] # "none"})

\* No call is executing and the map holds one Ready and one Failed entry.
C12_Witness ==
    /\ CacheQuiescent
    /\ status_cache["h1"] = "Failed" /\ status_cache["h2"] = "Ready"
    /\ status_ready = 1 /\ status_failed = 1

\* C13: neither counter of the status cache is ever below 0, the states in
\* the middle of concurrent inserts and retains included.
C13_StatusCountersNonnegative ==
    status_ready >= 0 /\ status_failed >= 0

\* Two inserts on the same key are between their DashMap::insert and their
\* fetch_sub while a retain is under way.
C13_Witness ==
    /\ call["t1"].op = "insert_sub"
    /\ call["t2"].op = "insert_map" /\ call["t2"].hash = "h1"
    /\ call["t3"].op = "retain" /\ call["t3"].todo = {"h1"}
    /\ status_cache["h1"] = "Ready"
    /\ status_ready = 2

----------------------------------------------------------------------------
\* Properties of the start-up scan

\* read_transcodes_dir has returned.
ScanFinished == scan.pc = "done"

HexDigitChars == {"0", "1", "2", "3", "4", "5", "6", "7", "8", "9",
                  "a", "b", "c", "d", "e", "f", "A", "B", "C", "D", "E", "F"}

\* A regular file of the directory named <kind>-<32 hex digits>.ogg.
OggNamed(n) ==
    /\ files[n].type = "file"
    /\ n.ext = "ogg"
    /\ Len(n.stem) = 34 /\ n.stem[1] # "-" /\ n.stem[2] = "-"
    /\ \A i \in 3..34 : n.stem[i] \in HexDigitChars

\* A regular file with the extension "tmp".
TmpFile(n) == files[n].type = "file" /\ n.ext = "tmp"

\* What the scan leaves alone: only temp files leave the directory, and no
\* Failed entry is made.
C14_ScanLeaves ==
    /\ [](ScanFinished =>
            /\ \A h \in Hashes : status_cache[h] # "Failed"
            /\ \A n \in DOMAIN files : ~TmpFile(n)
            /\ \A h \in Hashes : status_cache[h] = "Ready" =>
                  ready_entry[h].path \in DOMAIN files /\ OggNamed(ready_entry[h].path))
    /\ [][\A n \in DOMAIN files : n \notin DOMAIN files' => TmpFile(n)]_vars

\* C14 as claimed: when the scan has returned, every regular file named
\* <kind>-<32 hex digits>.ogg has a Ready entry of its own with its path and
\* size, the ready counter is the number of those files, there is no Failed
\* entry, no temp file is left, and nothing else was inserted or deleted.
C14_StartupScan_Claimed ==
    /\ C14_ScanLeaves
    /\ [](ScanFinished =>
            /\ \A n \in DOMAIN files : OggNamed(n) =>
                  \E h \in Hashes :
                     /\ status_cache[h] = "Ready"
                     /\ ready_entry[h] = [path |-> n, size |-> files[n].len]
            /\ status_ready = Cardinality({n \in DOMAIN files : OggNamed(n)}))

\* The key a file name stands for.
NamedKey(n) == ParseStem(n.stem).key

\* C14 amended: when the scan has returned, every key named by a regular
\* file <kind>-<32 hex digits>.ogg has one Ready entry, which holds the path
\* and the size of one of the files that name the key (two names that differ
\* in the case of their hex digits name the same key); the ready counter is
\* the number of Ready entries; the rest as claimed.
C14_StartupScan ==
    /\ C14_ScanLeaves
    /\ [](ScanFinished =>
            /\ \A n \in DOMAIN files : OggNamed(n) =>
                  \E h \in Hashes :
                     /\ KeyOf(h) = NamedKey(n)
                     /\ status_cache[h] = "Ready"
                     /\ NamedKey(ready_entry[h].path) = NamedKey(n)
                     /\ ready_entry[h].size = files[ready_entry[h].path].len
            /\ status_ready = CountOf(status_cache, "Ready")
            /\ status_ready = Cardinality({NamedKey(n) : n \in {m \in DOMAIN files : OggNamed(m)}}))

\* The scan has returned from a directory that held two valid .ogg files of
\* different keys, a temp file, a text file and a directory: two Ready
\* entries, the temp file gone, the others in place.
C14_Witness ==
    /\ ScanFinished
    /\ status_ready = 2
    /\ status_cache = [h \in Hashes |-> "Ready"]
    /\ Name(<<"garbage">>, "txt") \in DOMAIN files
    /\ Name(<<"xxh3", "-">> \o Repeat("g", 32), "ogg") \in DOMAIN files
    /\ Name(<<"xxh3", "-">> \o Repeat("1", 32), "ogg") \in DOMAIN files
    /\ Name(<<"xxh3", "-">> \o Repeat("A", 32), "ogg") \in DOMAIN files
    /\ Name(<<"xxh3", "-">> \o Repeat("a", 32), "ogg") \notin DOMAIN files
    /\ Cardinality(DOMAIN files) = 5

----------------------------------------------------------------------------
\* Properties of the pool

\* The closure of Load's filter decides to keep path p.
LoadKeeps(p) ==
    sup_pc = "load_filter" /\ p \in sup_work.todo /\ p \in sup_work'.keep

\* The closure of Load's filter decides to drop path p.
LoadDrops(p) ==
    sup_pc = "load_filter" /\ p \in sup_work.todo /\ p \notin sup_work'.todo
        /\ p \notin sup_work'.keep

\* The step in which Load prunes the queue, and the one in which it extends
\* the queue and returns.
LoadRetainStep == sup_pc = "idle" /\ sup_pc' = "load_filter"
LoadExtendStep == sup_pc = "load_filter" /\ sup_pc' = "idle"

\* C15: a path whose row in the hash cache is valid and whose hash is Ready
\* is dropped by the filter of every Load; a path is kept only when its row
\* is missing or invalid or its hash has no status, Ready or Failed; and a
\* path enters the queue only in the extend of a Load that kept it.
C15_LoadSkipsKnownHashes ==
    /\ [][\A p \in Paths :
            (sup_pc = "load_filter" /\ p \in sup_work.todo /\ p \notin sup_work'.todo
             /\ hash_cache[p] = "valid" /\ status_cache[HashOf(p)] = "Ready")
            => LoadDrops(p)]_vars
    /\ [][\A p \in Paths : LoadKeeps(p) =>
            (hash_cache[p] # "valid" \/ status_cache[HashOf(p)] \notin {"Ready", "Failed"})]_vars
    /\ [][\A p \in Paths : (p \notin DOMAIN queue /\ p \in DOMAIN queue') =>
            (LoadExtendStep /\ p \in sup_work.keep)]_vars

\* A second Load of a and b has dropped a, whose hash is Ready and whose row
\* is valid, and has yet to look at b; a is not resident.
C15_Witness ==
    /\ sup_pc = "load_filter"
    /\ ops = 2
    /\ sup_items = {"a", "b"}
    /\ sup_work = [todo |-> {"b"}, keep |-> {}]
    /\ hash_cache["a"] = "valid"
    /\ status_cache[HashOf("a")] = "Ready"
    /\ "a" \notin DOMAIN queue

\* C16: Load(S) prunes the queue to the paths of S, whatever their priority,
\* and leaves the priorities of the others alone; from then until Load
\* returns every resident path is in S and no priority changes; the extend
\* keeps every resident entry with its priority and adds paths at priority 0.
C16_LoadPrunesAndKeepsPriorities ==
    /\ [][LoadRetainStep =>
            queue' = [p \in DOMAIN queue \cap sup_items' |-> queue[p]]]_vars
    /\ [](sup_pc = "load_filter" => DOMAIN queue \subseteq sup_items)
    /\ [][(sup_pc = "load_filter" /\ sup_pc' = "load_filter") =>
            \A p \in DOMAIN queue' : p \in DOMAIN queue /\ queue'[p] = queue[p]]_vars
    /\ [][LoadExtendStep =>
            /\ DOMAIN queue' \subseteq sup_items
            /\ \A p \in DOMAIN queue : p \in DOMAIN queue' /\ queue'[p] = queue[p]
            /\ \A p \in DOMAIN queue' \ DOMAIN queue : queue'[p] = 0]_vars

\* Under IfRequested a second Load, of a alone, has pruned the queue: a is
\* resident with the priority a Prioritize gave it, b is not resident.
C16_Witness ==
    /\ policy = IfRequested
    /\ ops = 2
    /\ sup_pc = "load_filter"
    /\ sup_items = {"a"}
    /\ DOMAIN queue = {"a"} /\ queue["a"] = 1
    /\ \A w \in Workers : pc[w] = "wait_lock"

\* The step in which worker w sets the status of its hash to Ready.
InsertsReady(w) == pc[w] = "insert_ready" /\ pc'[w] = "wait_lock"

\* C17: of two workers on paths of equal hash only the first to finish
\* makes a Ready entry: no worker sets a hash to Ready that is Ready already,
\* and no worker starts the transcoder for a hash another worker is
\* transcoding.
C17_OnlyFirstProducesReady ==
    /\ [][\A w \in Workers : InsertsReady(w) =>
            status_cache[HashOf(job[w])] # "Ready"]_vars
    /\ [][\A w \in Workers : (pc[w] = "check" /\ pc'[w] = "transcode") =>
            \A v \in Workers \ {w} :
                ~(pc[v] \in {"transcode", "writing", "rename", "insert_ready"}
                  /\ HashOf(job[v]) = HashOf(job[w]))]_vars

\* C18: before the rename no worker creates (truncates) the temp file another
\* worker is writing, and no worker writes through a file that has been
\* renamed to the final path.
C18_TempFileNotShared ==
    /\ [][\A w \in Workers : (pc[w] = "transcode" /\ pc'[w] = "writing") =>
            \A v \in Workers \ {w} :
                ~(pc[v] = "writing" /\ Holds(v, HashOf(job[w]), "tmp"))]_vars
    /\ [][\A w \in Workers : (pc[w] = "writing" /\ pc'[w] = "rename") =>
            fd[w] # "ogg"]_vars

\* C19: the file of every Ready entry exists.
C19_ReadyFileExists ==
    \A h \in Hashes :
        status_cache[h] = "Ready" => ready_entry[h].path \in DOMAIN files

\* The step in which transcode() of worker w returns an error.
TranscodeFails(w) == pc[w] \in {"transcode", "writing"} /\ pc'[w] = "insert_failed"

\* C20: when the transcoder fails the worker removes the temp file and then
\* inserts Failed for the hash, which adds one to the failed counter unless
\* a Failed entry is replaced; with that it leaves the inprogress region and
\* is back at queue.wait(), without a Ready entry of its making.
C20_TranscodeErrorPublishesFailed ==
    /\ [][\A w \in Workers : TranscodeFails(w) =>
            /\ TempPath(HashOf(job[w])) \notin DOMAIN files'
            /\ UNCHANGED <<status_vars, job>>]_vars
    /\ [][\A w \in Workers : (pc[w] = "insert_failed" /\ pc'[w] # "insert_failed") =>
            /\ status_cache'[HashOf(job[w])] = "Failed"
            /\ status_failed' = status_failed +
                  (IF status_cache[HashOf(job[w])] = "Failed" THEN 0 ELSE 1)
            /\ inprogress_counter' = inprogress_counter - 1
            /\ pc'[w] = "wait_lock"]_vars

\* One Load; a transcode failed after the temp file was created: the hash is
\* Failed, the failed counter is 1, the directory is empty again, nobody is
\* in the inprogress region and both workers are at queue.wait().
C20_Witness ==
    /\ ops = 1
    /\ status_cache["h1"] = "Failed"
    /\ status_failed = 1 /\ status_ready = 0
    /\ files = EmptyDir
    /\ inprogress_counter = 0
    /\ \A w \in Workers : pc[w] = "wait_lock"
    /\ "b" \in DOMAIN queue

\* The step in which get_hash of worker w returns an error.
HashFails(w) == pc[w] = "hashing" /\ pc'[w] = "wait_lock"

\* What C21 holds in common with its amended form: from the pop to the hash
\* error the worker changes neither the status cache, nor its counters, nor
\* the files; the pop took the path out of the queue; the error step takes
\* the worker out of the inprogress region, back to queue.wait(), and leaves
\* the queue alone.
C21_HashError ==
    /\ [][\A w \in Workers : (pc[w] \in {"wait_lock", "get_hash", "hashing"}
                              /\ pc'[w] \in {"get_hash", "hashing", "wait_lock"}
                              /\ pc'[w] # pc[w]) =>
            UNCHANGED <<status_cache, status_ready, status_failed, ready_entry, files>>]_vars
    /\ [][\A w \in Workers : (pc[w] = "wait_lock" /\ pc'[w] = "get_hash") =>
            job'[w] \notin DOMAIN queue']_vars
    /\ [][\A w \in Workers : HashFails(w) =>
            /\ inprogress_counter' = inprogress_counter - 1
            /\ job'[w] = NoJob
            /\ queue' = queue]_vars

\* C21 as claimed: in addition, when the hash error occurs the path is not
\* resident in the queue.
C21_HashErrorSkips_Claimed ==
    /\ C21_HashError
    /\ [][\A w \in Workers : HashFails(w) => job[w] \notin DOMAIN queue']_vars

\* C21 amended: the worker does not put the path back; a path that a worker
\* has popped becomes resident again only by the extend of a Load, so after
\* the hash error the path is resident only if a Load enqueued it again
\* since the pop.
C21_HashErrorSkips ==
    /\ C21_HashError
    /\ [][\A w \in Workers : \A p \in Paths :
            ((\E v \in Workers : job[v] = p) /\ p \notin DOMAIN queue /\ p \in DOMAIN queue')
            => LoadExtendStep]_vars

\* One Load of a; a worker popped a, entered the region and its get_hash
\* failed: it is back at queue.wait(), nothing was published, no file
\* exists, the region is empty and a is not resident.
C21_Witness ==
    /\ ops = 1
    /\ \A w \in Workers : pc[w] = "wait_lock" /\ job[w] = NoJob
    /\ hash_cache["a"] = "none"
    /\ queue = EmptyQueue
    /\ sup_pc = "idle"
    /\ policy = Always
    /\ \A h \in Hashes : status_cache[h] = "none"
    /\ status_ready = 0 /\ status_failed = 0
    /\ files = EmptyDir
    /\ inprogress_counter = 0

\* Worker w holds a live RegionCounterGuard: it is between entered() and the
\* end of the iteration.
Guarded(w) ==
    pc[w] \in {"hashing", "check", "transcode", "writing", "rename",
               "insert_ready", "insert_failed"}

\* C22: the inprogress counter is the number of workers that hold a live
\* guard; it is between 0 and the number of workers, it is 0 when every
\* worker is in wait(), and the step that ends an iteration, on whichever
\* path, takes exactly one from it.
C22_InprogressCounterExact ==
    /\ [](inprogress_counter = Cardinality({w \in Workers : Guarded(w)}))
    /\ [](inprogress_counter >= 0 /\ inprogress_counter <= Cardinality(Workers))
    /\ []((\A w \in Workers : pc[w] = "wait_lock") => inprogress_counter = 0)
    /\ [][\A w \in Workers : (Guarded(w) /\ ~Guarded(w)') =>
            inprogress_counter' = inprogress_counter - 1]_vars

\* Both workers are in the region, one computing its hash, the other about
\* to publish Failed: the counter is 2.
C22_Witness ==
    /\ pc["w1"] = "hashing"
    /\ pc["w2"] = "insert_failed"
    /\ inprogress_counter = 2

\* The closure of delete_missing's retain, and of delete_all's, is applied
\* to the entry of hash h.
RetainStep(h) ==
    sup_pc = "retain" /\ h \in sup_work.todo /\ h \notin sup_work'.todo
RetainAllStep(h) ==
    sup_pc = "retain_all" /\ h \in sup_work.todo /\ h \notin sup_work'.todo

\* The step leaves the entry of hash h, and its file, as they are.
EntryKept(h) ==
    /\ status_cache'[h] = status_cache[h]
    /\ ready_entry'[h] = ready_entry[h]

\* The step removes the Ready entry of hash h and takes one from the ready
\* counter; the file of the entry is gone, or removing it failed and the
\* directory is as before.
ReadyDropped(h) ==
    /\ status_cache'[h] = "none"
    /\ status_ready' = status_ready - 1
    /\ \/ ready_entry[h].path \notin DOMAIN files'
       \/ files' = files

\* C23: the set of hashes DeleteMissing works with holds only hashes of the
\* paths it was given; its retain removes a Ready entry, with its file, when
\* the hash is not in the set, taking one from the ready counter for each;
\* it keeps a Ready entry whose hash is in the set and every Failed entry,
\* touches no other entry than the one it is applied to, and never changes
\* the failed counter.
C23_DeleteMissing ==
    /\ [][(sup_pc = "idle" /\ sup_pc' = "retain") =>
            sup_work'.keep \subseteq {HashOf(p) : p \in sup_items'}]_vars
    /\ [][\A h \in Hashes : RetainStep(h) =>
            /\ IF status_cache[h] = "Ready" /\ h \notin sup_work.keep
               THEN ReadyDropped(h)
               ELSE EntryKept(h) /\ status_ready' = status_ready /\ files' = files
            /\ \A g \in Hashes \ {h} : EntryKept(g)
            /\ status_failed' = status_failed]_vars

\* Load, then DeleteMissing with the set {h1}: the retain is through, the
\* Ready entry of h1 is kept with its file, h2 has neither entry nor file.
C23_Witness ==
    /\ sup_pc = "retain"
    /\ sup_work = [todo |-> {}, keep |-> {"h1"}]
    /\ status_cache = [h \in Hashes |-> IF h = "h1" THEN "Ready" ELSE "none"]
    /\ status_ready = 1
    /\ DOMAIN files = {FinalPath("h1")}

\* C24: the retain of DeleteAll removes every Ready entry it is applied to,
\* also when the file cannot be removed, taking one from the ready counter
\* for each; it keeps every Failed entry and the failed counter; an entry
\* it has been applied to is Ready again only by a worker's insert, and
\* when at the end no entry is Ready the ready counter is 0.
C24_DeleteAll ==
    /\ [][\A h \in Hashes : RetainAllStep(h) =>
            /\ IF status_cache[h] = "Ready"
               THEN ReadyDropped(h)
               ELSE EntryKept(h) /\ status_ready' = status_ready /\ files' = files
            /\ \A g \in Hashes \ {h} : EntryKept(g)
            /\ status_failed' = status_failed]_vars
    /\ [][\A h \in Hashes :
            (sup_pc = "retain_all" /\ h \notin sup_work.todo
             /\ status_cache[h] # "Ready" /\ status_cache'[h] = "Ready")
            => \E w \in Workers : InsertsReady(w) /\ HashOf(job[w]) = h]_vars
    /\ []((sup_pc = "retain_all" /\ sup_work.todo = {}
           /\ \A h \in Hashes : status_cache[h] # "Ready") => status_ready = 0)

\* DeleteAll is through: the Failed entry of h1 is kept and counted, the
\* entry of h2 is removed although its file could not be removed, and the
\* ready counter is 0.
C24_Witness ==
    /\ sup_pc = "retain_all"
    /\ sup_work.todo = {}
    /\ status_cache = [h \in Hashes |-> IF h = "h1" THEN "Failed" ELSE "none"]
    /\ FinalPath("h2") \in DOMAIN files
    /\ status_ready = 0
    /\ status_failed = 1

----------------------------------------------------------------------------
\* Properties of the hash cache

\* The stored row of path p matches the file as it is now: the size, and
\* the modification time in whole seconds.
ValidRow(p) ==
    /\ source[p] # NoFile
    /\ hash_db[p].present
    /\ hash_db[p].last_file_size = source[p].size
    /\ hash_db[p].last_modified_at = AsSecs(source[p].mtime)

\* Steps of a call of get_cached_hash by thread t: any step, and its return.
GetCachedHashStep(t) ==
    call'[t] # call[t] /\ (call[t].op = "get_cached_hash" \/ CanCall(t))
        /\ (call'[t].op = "get_cached_hash"
            \/ (call'[t].op = "returned" /\ call'[t].fn = "get_cached_hash"))
GetCachedHashReturns(t) ==
    call[t].op = "get_cached_hash" /\ call[t].pc = "match" /\ call'[t].op = "returned"

\* Nothing the call read has changed since: the row it found is the stored
\* row and the metadata it read is the file's.
ReadsCurrent(t) ==
    /\ source[call[t].path] # NoFile
    /\ call[t].key = ReadMetadata(source[call[t].path])
    /\ call[t].cached = hash_db[call[t].path]

\* The size or the modification time of the file of p changes, the row stays.
SourceChanges(p) ==
    /\ source[p] # NoFile /\ source'[p] # NoFile
    /\ source'[p].size # source[p].size \/ source'[p].mtime # source[p].mtime
    /\ hash_db'[p] = hash_db[p]

\* What C25 holds in common with its amended form: get_cached_hash returns
\* the hash of the row it found when that row matches the metadata it read,
\* and None otherwise; when neither has changed since it read them, that is
\* Some(stored hash) exactly when the stored row matches the file; it never
\* reaches get_file_hash and never changes the rows or the file; rows change
\* only in the insert of get_hash or batch_get_hash.
C25_GetCachedHash ==
    /\ [][\A t \in Callers : GetCachedHashReturns(t) =>
            /\ call'[t].result =
                  IF /\ call[t].cached.present
                     /\ call[t].key.file_size = call[t].cached.last_file_size
                     /\ call[t].key.modified_at = call[t].cached.last_modified_at
                  THEN ResultSome(call[t].cached.hash) ELSE ResultNone
            /\ ReadsCurrent(t) =>
                  /\ call'[t].result.some <=> ValidRow(call[t].path)
                  /\ call'[t].result.some =>
                        call'[t].result.key = KeyOf(hash_db[call[t].path].hash)]_vars
    /\ [][\A t \in Callers : GetCachedHashStep(t) => UNCHANGED <<hash_db, source>>]_vars
    /\ [](\A t \in Callers : call[t].op = "get_cached_hash" =>
            call[t].pc \in {"lookup", "match"})
    /\ [][hash_db' # hash_db =>
            \E t \in Callers :
                \/ call[t].op = "get_hash" /\ call[t].pc = "insert"
                \/ call[t].op = "batch_get_hash" /\ call[t].todo = {}]_vars

\* C25 as claimed: in addition, once the size or the modification time of a
\* file whose row matched has changed, the row no longer matches.
C25_GetCachedHash_Claimed ==
    /\ C25_GetCachedHash
    /\ [][\A p \in HashPaths : (ValidRow(p) /\ SourceChanges(p)) => ~ValidRow(p)']_vars

\* C25 amended: in addition, once the size, or the modification time in
\* whole seconds, of a file whose row matched has changed, the row no longer
\* matches.
C25_GetCachedHash_Amended ==
    /\ C25_GetCachedHash
    /\ [][\A p \in HashPaths :
            (ValidRow(p) /\ SourceChanges(p)
             /\ (source'[p].size # source[p].size
                 \/ AsSecs(source'[p].mtime) # AsSecs(source[p].mtime)))
            => ~ValidRow(p)']_vars

\* The file was written, get_hash stored its row, the file was written again
\* and get_cached_hash, reading the new metadata and the stored row, has
\* returned None.
C25_Witness ==
    /\ ops = 2
    /\ source["a"] # NoFile
    /\ hash_db["a"].present
    /\ ~ValidRow("a")
    /\ call[HashSupervisor] = Returned("get_cached_hash", "a", ResultNone)

\* The step in which worker w ends an iteration whose get_hash succeeded.
IterationEnds(w) == pc[w] \notin {"wait_lock", "get_hash"} /\ pc'[w] = "wait_lock"

\* The hash is published as Ready with its file in the directory and the
\* ready counter counting the Ready entries, or as Failed.
Published(cache, dir, counter, hash) ==
    \/ /\ cache[hash] = "Ready"
       /\ FinalPath(hash) \in DOMAIN dir
       /\ counter = Cardinality({h \in Hashes : cache[h] = "Ready"})
    \/ cache[hash] = "Failed"

----------------------------------------------------------------------------
\* Properties of transcode()

\* transcode() has returned Ok and its output has audio packets.
Transcoded == out # NoOutput /\ out.result = "ok" /\ Len(out.packets) > 2

\* The audio packets written so far, in order, and the last packet written.
AudioPackets ==
    IF out = NoOutput \/ Len(out.packets) < 2 THEN << >>
    ELSE SubSeq(out.packets, 3, Len(out.packets))
FinalPacket == out.packets[Len(out.packets)]

\* C27, what transcode() declares for a resampled source: the pre-skip of
\* OpusHead is the encoder's lookahead.
C27_PreSkip ==
    (Transcoded /\ audio.sample_rate # 48000) =>
        out.packets[1].pre_skip = audio.lookahead_frames

\* C27 as claimed: for a source of N frames at a rate r other than 48000 the
\* granule position of the final packet is round(T * r) = N, and the pre-skip
\* is the encoder's lookahead.
C27_FinalGranule_Claimed ==
    /\ C27_PreSkip
    /\ (Transcoded /\ audio.sample_rate # 48000) =>
          FinalPacket.granule_position = audio.original_frames

\* C27: for a source of N frames at a rate r other than 48000 the granule
\* position of the final packet counts 48 kHz frames: floor(N * 48000 / r)
\* resampled frames and the L frames of the zero pad; the pre-skip is the
\* encoder's lookahead L.
C27_FinalGranule ==
    /\ C27_PreSkip
    /\ (Transcoded /\ audio.sample_rate # 48000) =>
          /\ FinalPacket.kind = "audio"
          /\ FinalPacket.granule_position =
                (audio.original_frames * 48000) \div audio.sample_rate
                + audio.lookahead_frames

\* 2000 stereo frames at 44100 Hz with a lookahead of 312: the final packet
\* declares 2176 + 312 frames, and the worker has published Ready.
C27_Witness ==
    /\ Transcoded
    /\ audio.sample_rate = 44100 /\ audio.original_frames = 2000
    /\ audio.lookahead_frames = 312 /\ audio.channel_count = 2
    /\ FinalPacket.granule_position = 2488
    /\ status_cache[HashOf("a")] = "Ready"

\* The frames of the padded 48 kHz stream.
StreamFrames == out.interleaved_len \div audio.channel_count

\* C28: the k-th audio packet of a full chunk has granule position 960 * k,
\* for mono and stereo alike; granule positions never decrease; no packet
\* follows an EndStream packet; and when transcode() has returned, a
\* non-empty stream has one audio packet per chunk of 960 frames, the last
\* chunk zero-padded, of which the last packet written is the one EndStream.
C28_PacketsPerChunk ==
    out # NoOutput =>
        /\ \A k \in 1 .. Len(AudioPackets) :
              /\ AudioPackets[k].kind = "audio"
              /\ 960 * k <= StreamFrames => AudioPackets[k].granule_position = 960 * k
              /\ k < Len(AudioPackets) =>
                    /\ AudioPackets[k].end_info = "NormalPacket"
                    /\ AudioPackets[k].granule_position <= AudioPackets[k + 1].granule_position
        /\ (out.result = "ok" /\ StreamFrames > 0) =>
              /\ Len(AudioPackets) = (StreamFrames + 959) \div 960
              /\ FinalPacket.kind = "audio"
              /\ FinalPacket.end_info = "EndStream"
              /\ Cardinality({k \in 1 .. Len(AudioPackets) :
                                AudioPackets[k].end_info = "EndStream"}) = 1

\* A stereo stream of two full chunks and a trailing partial chunk: packets
\* at 960 and 1920, and the EndStream packet of the padded chunk at the
\* number of frames of the stream.
C28_Witness ==
    /\ Transcoded
    /\ audio.channel_count = 2
    /\ Len(AudioPackets) = 3
    /\ AudioPackets[2].granule_position = 1920
    /\ AudioPackets[2].end_info = "NormalPacket"
    /\ AudioPackets[3].granule_position = 2000
    /\ AudioPackets[3].end_info = "EndStream"

\* C29: for a 48000 Hz source of N frames and an encoder lookahead L the
\* pre-skip of OpusHead is L and the granule position of the final packet
\* is N + L: the L leading zero frames are counted, the zeros that pad the
\* last chunk to 960 frames are not.
C29_FinalGranule48k ==
    (Transcoded /\ audio.sample_rate = 48000) =>
        /\ out.packets[1].kind = "OpusHead"
        /\ out.packets[1].pre_skip = audio.lookahead_frames
        /\ FinalPacket.kind = "audio"
        /\ FinalPacket.granule_position = audio.original_frames + audio.lookahead_frames

\* 1000 mono frames at 48000 Hz with a lookahead of 312: one full chunk and
\* a padded one, whose packet declares 1312 frames and not 1920.
C29_Witness ==
    /\ Transcoded
    /\ audio.sample_rate = 48000 /\ audio.original_frames = 1000
    /\ audio.lookahead_frames = 312 /\ audio.channel_count = 1
    /\ out.packets[1].pre_skip = 312
    /\ Len(AudioPackets) = 2
    /\ FinalPacket.granule_position = 1312

\* C30: a cover picture the image library cannot decode or encode does not
\* fail transcode(): the OpusTags packet is written without a
\* METADATA_BLOCK_PICTURE comment and the encoding goes on, and the worker
\* does not publish Failed for a transcode whose only error is the picture.
C30_CoverArtFailureNonFatal ==
    /\ [][\A w \in Workers : (pc[w] = "tags" /\ out'.visual = "corrupt") =>
            /\ pc'[w] = "encode"
            /\ out'.result = "running"
            /\ Picture \notin out'.packets[2].comments]_vars
    /\ [][\A w \in Workers : (pc[w] = "insert_failed" /\ pc'[w] = "wait_lock") =>
            (out.visual # "corrupt" \/ out.result = "ok")]_vars

\* The step in which transcode() of worker w looks at the channel count.
ChecksChannels(w) == pc[w] = "transcode" /\ pc'[w] # "transcode"

\* C31: transcode() fails for every channel count other than 1 and 2, and
\* it fails before File::create: the temp file was not created and is not
\* there after the error, and the worker goes on to publish Failed; for 1 and
\* 2 channels the check passes and the output file is created next.
C31_ChannelCountError ==
    /\ [][\A w \in Workers : ChecksChannels(w) =>
            IF audio.channel_count \in {1, 2}
            THEN out'.result = "running" /\ pc'[w] = "create"
            ELSE /\ out'.result = "err"
                 /\ pc'[w] = "insert_failed"
                 /\ TempPath(HashOf(job[w])) \notin DOMAIN files
                 /\ files' = files]_vars
    /\ [](\A w \in Workers :
            (out # NoOutput /\ out.result = "err" /\ audio.channel_count \notin {1, 2}) =>
                /\ files = EmptyDir
                /\ fd[w] = "closed")

\* A source of 3 channels: transcode() failed, the directory is empty and
\* the worker has published Failed.
C31_Witness ==
    /\ audio.channel_count = 3
    /\ out # NoOutput /\ out.result = "err"
    /\ files = EmptyDir
    /\ status_cache[HashOf("a")] = "Failed"
    /\ pc[Transcoding] = "wait_lock"

----------------------------------------------------------------------------
\* Properties of batch_get_hash

\* The caller is inside batch_get_hash, and the step in which it returns.
InBatch(t) == call[t].op = "batch_get_hash"
BatchReturns(t) == InBatch(t) /\ call'[t].op = "returned"

\* The row the call found for path p matches the file as it is.
BatchCached(t, p) ==
    /\ call[t].cached[p].present
    /\ MatchesFileHash(ReadMetadata(source[p]), call[t].cached[p])

\* The hash of a file that could be read: the hash of the row when the row
\* matches the file's size and mtime, else the hash of the content.
BatchHash(t, p) ==
    IF BatchCached(t, p) THEN call[t].cached[p].hash ELSE source[p].content

\* C32: a file that cannot be read does not end the call: the step of one
\* path never returns, and a missing file is left out; the call returns Ok
\* with exactly the hashes of the files no warning was logged for, the hash
\* of the row where the row matches; the database is written only in the
\* returning step, after every path has been processed, and that one write
\* stores the rows of the files that were hashed anew and no others.
C32_BatchGetHash ==
    /\ [][\A t \in Callers : (InBatch(t) /\ call[t].todo # {}) =>
            /\ InBatch(t)'
            /\ hash_db' = hash_db
            /\ \A p \in call[t].todo \ call'[t].todo :
                  source[p] = NoFile => p \in call'[t].failed]_vars
    /\ [][\A t \in Callers : (BatchReturns(t) /\ call'[t].result.ok) =>
            LET good == call[t].paths \ call[t].failed
            IN  /\ call[t].todo = {}
                /\ call'[t].result.hashes = {KeyOf(BatchHash(t, p)) : p \in good}
                /\ \A p \in DOMAIN hash_db :
                      hash_db'[p] =
                         IF p \in good /\ ~BatchCached(t, p)
                         THEN InsertFileHash(ReadMetadata(source[p]), source[p].content)
                         ELSE hash_db[p]]_vars
    /\ [][hash_db' # hash_db => \E t \in Callers : BatchReturns(t)]_vars

\* batch_get_hash({a, b}) returned Ok with the one hash of b although a
\* could not be read: b's row was stored by this call, a has none.
C32_Witness ==
    LET c == call[HashSupervisor]
    IN  /\ c.op = "returned" /\ c.fn = "batch_get_hash"
        /\ c.paths = {"a", "b"}
        /\ c.result.ok
        /\ c.failed = {"a"}
        /\ source["a"] = NoFile /\ source["b"] # NoFile
        /\ c.result.hashes = {KeyOf(source["b"].content)}
        /\ ~hash_db["a"].present
        /\ hash_db["b"] = InsertFileHash(ReadMetadata(source["b"]), source["b"].content)

----------------------------------------------------------------------------
\* Properties of the keys of the status cache

\* C33: every key of the status cache has the hash kind "md5" or "xxh3" and
\* a hash of 16 bytes, whoever inserted the entry.
C33_StatusKeysWellFormed ==
    \A h \in DOMAIN status_cache :
        status_cache[h] # "none" =>
            /\ KeyOf(h).kind \in {<<"md5">>, <<"xxh3">>}
            /\ Len(KeyOf(h).hash) = 16


----------------------------------------------------------------------------
\* Lock order of the TranscodeQueue

\* The thread is stopped at a lock() of the mutex.
RequestsQueue(t) == call[t].op \in QueueOps /\ call[t].pc = "queue_lock"
RequestsPolicy(t) ==
    /\ call[t].op \in QueueOps
    /\ \/ call[t].pc = "policy_lock"
       \/ call[t].pc = "pop_if" /\ queue # EmptyQueue

\* C34: no interleaving of set_policy, extend, prioritize, remove_missing and
\* wait on one TranscodeQueue deadlocks: a thread requests the policy mutex
\* either holding no lock or holding the queue mutex, no thread requests the
\* queue mutex while it holds the policy mutex, and whenever a thread is
\* stopped at a lock() some thread inside an operation can take a step.
C34_NoDeadlock ==
    /\ \A t \in Callers : RequestsQueue(t) => policy_lock # t /\ queue_lock # t
    /\ \A t \in Callers : RequestsPolicy(t) =>
          /\ policy_lock # t
          /\ queue_lock = t <=> call[t].op = "wait"
    /\ (\E t \in Callers : RequestsQueue(t) \/ RequestsPolicy(t)) => ENABLED LockContinue

\* A wait holds both mutexes inside pop_if while a set_policy is stopped at
\* the policy mutex.
C34_Witness ==
    \E t, u \in Callers :
        /\ call[t].op = "wait" /\ call[t].pc = "pop_if_held"
        /\ queue_lock = t /\ policy_lock = t
        /\ RequestsPolicy(u) /\ call[u].op = "set_policy"


----------------------------------------------------------------------------
\* Delivery of resident entries by wait()

\* wait() is about to return the path to the worker.
Delivered(w) == pc[w] = "fetch_sub"

\* C35: each resident entry is delivered to at most one wait(): the step in
\* which a wait takes a path takes an entry that is resident and removes it,
\* one worker at a time, so that a path is returned again only after it was
\* enqueued again; and the waits that can return do return: with the
\* supervisor between operations, no worker is left asleep while an entry the
\* policy admits is resident.
C35_DeliveredOnce ==
    /\ [][\A w \in Workers :
            (~Delivered(w) /\ Delivered(w)') =>
                /\ job'[w] \in DOMAIN queue
                /\ queue' = Remove(queue, job'[w])
                /\ \A o \in Workers \ {w} : ~Delivered(o)']_vars
    /\ [](\A w \in Workers :
            (sup_pc = "idle" /\ pc[w] = "asleep") => ReadyCount(policy, queue) = 0)

\* One extend of two paths, and both workers have come back from wait() with
\* one of them each.
C35_Witness ==
    /\ ops = 1
    /\ sup_pc = "idle"
    /\ \A w \in Workers : pc[w] = "get_hash" /\ job[w] # NoJob
    /\ job["w1"] # job["w2"]
    /\ {job[w] : w \in Workers} \cap DOMAIN queue = {}


----------------------------------------------------------------------------
\* Ready entries and the workers

\* C36: a Ready status is never downgraded by a worker: a hash that has a
\* Ready entry does not get a Failed entry in its place, and its Ready entry
\* leaves the cache only in the retain of DeleteMissing or DeleteAll.
C36_ReadyNotDowngraded ==
    [][\A h \in Hashes :
          status_cache[h] = "Ready" =>
              /\ status_cache'[h] # "Failed"
              /\ status_cache'[h] = "none" => sup_pc \in {"retain", "retain_all"}]_vars


----------------------------------------------------------------------------
\* Paths in progress and Load

\* The worker has popped the path and has not finished with it.
InProgress(w, path) == job[w] = path /\ path # NoJob

\* C37 as claimed: no source path is processed by two workers at the same
\* time, and a path in progress at a worker is not resident in the queue.
C37_NotEnqueuedInProgress_Claimed ==
    /\ \A w \in Workers : job[w] # NoJob => job[w] \notin DOMAIN queue
    /\ \A w, v \in Workers : (w # v /\ job[w] # NoJob) => job[w] # job[v]

\* C37 amended: a path in progress at a worker becomes resident again only by
\* the extend of a Load, and Load's filter keeps a path exactly when its
\* cached hash is not valid or its hash has no status entry; a job in
\* progress has no entry of its own, so nothing keeps the path from being
\* enqueued and popped a second time.
C37_NotEnqueuedInProgress ==
    [][/\ \A w \in Workers :
            (InProgress(w, job[w]) /\ job[w] \notin DOMAIN queue /\ job[w] \in DOMAIN queue')
                => /\ sup_pc = "load_filter" /\ sup_pc' = "idle"
                   /\ job[w] \in sup_work.keep
       /\ \A item \in PoolPaths :
            (sup_pc = "load_filter" /\ sup_pc' = "load_filter"
                                    /\ item \in sup_work.todo \ sup_work'.todo)
                => (item \in sup_work'.keep <=>
                        (hash_cache[item] # "valid" \/ status_cache[HashOf(item)] = "none"))]_vars

\* Both workers have the same path in progress.
C37_Witness ==
    /\ InProgress("w1", job["w1"])
    /\ job["w1"] = job["w2"]


----------------------------------------------------------------------------
\* Temp files and the inprogress region

\* C38: whenever no worker is inside its inprogress region, transcodes_dir
\* contains no .tmp file.
C38_NoTempOutsideRegion ==
    inprogress_counter = 0 => \A n \in DOMAIN files : n.ext # "tmp"


----------------------------------------------------------------------------
\* Length of the resampled stream

\* The samples have been interleaved for the encoder.
Interleaved == out # NoOutput /\ out.result # "err"

\* The frames per channel of the interleaved samples.
EncoderFrames == out.interleaved_len \div audio.channel_count

\* The least integer not below n / d.
Ceil(n, d) == (n + d - 1) \div d

\* C39 as claimed: when the source rate differs from 48000 the stream handed
\* to the encoder has ceil(N_in * 48000 / rate_in) + L frames per channel.
C39_TargetLen_Claimed ==
    (Interleaved /\ audio.sample_rate # 48000) =>
        EncoderFrames = Ceil(audio.original_frames * 48000, audio.sample_rate)
                        + audio.lookahead_frames

\* C39 amended: when the source rate differs from 48000 the stream handed to
\* the encoder has floor(N_in * 48000 / rate_in) + L frames per channel, and
\* the interleaved buffer holds that many samples for each channel.
C39_TargetLen ==
    (Interleaved /\ audio.sample_rate # 48000) =>
        /\ EncoderFrames = (audio.original_frames * 48000) \div audio.sample_rate
                           + audio.lookahead_frames
        /\ out.interleaved_len = EncoderFrames * audio.channel_count

\* 2000 stereo frames at 44100 Hz, lookahead 312: 2000 * 48000 / 44100 is
\* 2176.87.., and the encoder is handed 2176 + 312 frames per channel.
C39_Witness ==
    /\ Interleaved
    /\ audio.sample_rate = 44100 /\ audio.original_frames = 2000
    /\ audio.lookahead_frames = 312 /\ audio.channel_count = 2
    /\ (audio.original_frames * 48000) % audio.sample_rate # 0
    /\ out.interleaved_len = 4976


----------------------------------------------------------------------------
\* The guards of a security-scoped url

\* C40: for each url the calls that start and stop the security-scoped
\* resource strictly alternate, beginning with a start, and while at least
\* one IosUrlAccessGuard of the url is alive the resource is being accessed,
\* under every interleaving of creations, clones and drops.
C40_UrlAccessCounting ==
    /\ [][\A url \in Urls :
            resource'[url] # resource[url] =>
                resource'[url].last # resource[url].last
                /\ (resource[url].last = "none" => resource'[url].last = "start")]_vars
    /\ [](\A url \in Urls : guards[url] > 0 => resource[url].accessing > 0)

====
